---- MODULE Spec2Model ----
(***************************************************************************)
(* Building Society Health Analysis Dashboard: the scoring primitives      *)
(* (calculations.py), the composite index (utils.py), the NMMC compliance  *)
(* evaluator (compliance.py), the risk label of the trainer (ml_models.py) *)
(* and the batch loop of app.py.                                           *)
(*                                                                         *)
(* Numbers.  Python floats are modelled by exact rationals [n, d] in       *)
(* lowest terms with d > 0.  A cell of a pandas row is a tagged value:     *)
(* Num(i), NaN, Str(s), Bool(b) or DateStr(day) (a text that               *)
(* pd.to_datetime parses to the day numbered day).  A row (pd.Series) is a *)
(* function from column names to cells; a missing column is a name that is *)
(* not in its DOMAIN.  A table (pd.DataFrame) is a sequence of rows.       *)
(***************************************************************************)
EXTENDS Integers, Sequences, FiniteSets, TLC

VARIABLES
    CURRENT_YEAR,   \* config.CURRENT_YEAR, fixed when the module is imported
    today,          \* the day number datetime.now() falls on
    call,           \* the call in progress: its function name and arguments
    ret,            \* what that call returned (or that it raised)
    buildings_df,   \* app.main: the loaded buildings table
    residents_df,   \* app.main: the loaded residents table
    transactions_df,\* app.main: the loaded transactions table
    repairs_df,     \* app.main: the loaded repairs table
    nmmc_rules,     \* app.main: the loaded rule document (None when not loaded)
    pc,             \* app.main: position of the batch
    idx,            \* app.main: index of the next row of buildings_df
    processed_data, \* app.main: the result rows appended so far
    main_df,        \* app.main: the sorted result table
    buildings_csv   \* the rows of the buildings file csv_data/sample_buildings.csv

vars == <<CURRENT_YEAR, today, call, ret, buildings_df, residents_df,
          transactions_df, repairs_df, nmmc_rules, pc, idx, processed_data, main_df,
          buildings_csv>>

callVars == <<call, ret>>
batchVars == <<buildings_df, residents_df, transactions_df, repairs_df,
               nmmc_rules, pc, idx, processed_data, main_df, buildings_csv>>
clockVars == <<CURRENT_YEAR, today>>

-----------------------------------------------------------------------------
(* Bounds of the model *)

MaxResidents == 2
MaxRepairs == 5
MaxTransactions == 1
MaxRules == 2
MaxBuildings == 2
MaxSamples == 4
MaxTicks == 2
MaxFileRows == 4

-----------------------------------------------------------------------------
(* Rational arithmetic standing for Python float arithmetic *)

Abs(i) == IF i < 0 THEN -i ELSE i

RECURSIVE Gcd(_, _)
Gcd(a, b) == IF b = 0 THEN a ELSE Gcd(b, a % b)

Rat(n, d) ==
    LET g == Gcd(Abs(n), Abs(d))
        s == IF d < 0 THEN -1 ELSE 1
    IN  [n |-> (s * n) \div g, d |-> (s * d) \div g]

RInt(i) == [n |-> i, d |-> 1]
RAdd(a, b) == Rat(a.n * b.d + b.n * a.d, a.d * b.d)
RSub(a, b) == Rat(a.n * b.d - b.n * a.d, a.d * b.d)
RMul(a, b) == Rat(a.n * b.n, a.d * b.d)
RDiv(a, b) == Rat(a.n * b.d, a.d * b.n)
RLt(a, b) == a.n * b.d < b.n * a.d
RLe(a, b) == a.n * b.d <= b.n * a.d
RGe(a, b) == RLe(b, a)
RGt(a, b) == RLt(b, a)
REq(a, b) == a.n * b.d = b.n * a.d

\* Python's min(a, b) and max(a, b): the first argument wins a tie
PyMin(a, b) == IF RLt(b, a) THEN b ELSE a
PyMax(a, b) == IF RGt(b, a) THEN b ELSE a

InRange0_100(x) == RLe(RInt(0), x) /\ RLe(x, RInt(100))

-----------------------------------------------------------------------------
(* Cells, rows and tables *)

Num(i) == [num |-> i]
NaN == [nan |-> TRUE]
Str(s) == [str |-> s]
Bool(b) == [bool |-> b]
DateStr(day) == [date |-> day]

IsNum(x) == DOMAIN x = {"num"}
IsStr(x) == DOMAIN x = {"str"}
IsBool(x) == DOMAIN x = {"bool"}
IsDate(x) == DOMAIN x = {"date"}
isna(x) == DOMAIN x = {"nan"}

\* Series.get(key, default) and dict.get(key, default)
Get(row, key, default) == IF key \in DOMAIN row THEN row[key] ELSE default

\* Series.empty, DataFrame.empty
SeriesEmpty(row) == DOMAIN row = {}
DfEmpty(df) == Len(df) = 0

\* The empty dict {}
EmptyDict == [k \in {} |-> 0]

\* df[df[col] == v]
RECURSIVE Filter(_, _, _)
Filter(df, col, v) ==
    IF df = <<>> THEN <<>>
    ELSE LET rest == Filter(Tail(df), col, v)
         IN  IF Head(df)[col] = v THEN <<Head(df)>> \o rest ELSE rest

\* df[col].sum()
RECURSIVE SumCol(_, _)
SumCol(df, col) == IF df = <<>> THEN 0 ELSE Head(df)[col] + SumCol(Tail(df), col)

\* All sequences over S of length at most n
SeqsUpTo(S, n) == UNION {[1..k -> S] : k \in 0..n}

-----------------------------------------------------------------------------
(* config.py *)

MIN_RESERVE_PER_FLAT_PER_YEAR == 500

\* Weights as rationals: 0.5 = 1/2, 0.3 = 3/10, 0.2 = 1/5, 0.4 = 2/5
BHI_WEIGHTS == [financial |-> Rat(1, 2), structural |-> Rat(3, 10), people |-> Rat(1, 5)]
FINANCIAL_WEIGHTS == [collection_rate |-> Rat(2, 5), reserve_ratio |-> Rat(2, 5), payment_punctuality |-> Rat(1, 5)]
STRUCTURAL_WEIGHTS == [age |-> Rat(1, 5), audit_rating |-> Rat(1, 2), repairs |-> Rat(3, 10)]
PEOPLE_WEIGHTS == [payment_punctuality |-> Rat(1, 2), owner_ratio |-> Rat(1, 5), socio_economic |-> Rat(3, 10)]

INCOME_SCORE_MAP == [Low |-> 30, Medium |-> 70, High |-> 100]
EDUCATION_SCORE_MAP == ("High School" :> 50) @@ ("Graduate" :> 80) @@ ("Post-Graduate" :> 100)
AUDIT_RATING_MAP == [A |-> 100, B |-> 80, C |-> 50, D |-> 20, F |-> 0]
BHI_COLOR_THRESHOLDS == [green |-> 80, orange |-> 50]

\* dict.get(key, default) on the integer-valued maps, as a rational
MapGet(map, key, default) == IF key \in DOMAIN map THEN RInt(map[key]) ELSE RInt(default)

\* str.upper() on the rating texts of the model
Upper(s) ==
    CASE s = "a" -> "A" [] s = "b" -> "B" [] s = "c" -> "C"
      [] s = "d" -> "D" [] s = "f" -> "F" [] OTHER -> s

-----------------------------------------------------------------------------
(* calculations.py.  Every row handed to these functions carries a          *)
(* building_id; the result is [score, details].                             *)

\* A numeric cell with NaN replaced by dflt: "if pd.isna(x): x = dflt"
NumOr(cell, dflt) == IF isna(cell) THEN dflt ELSE cell.num

\* building_expenses.groupby('category')['amount'].sum()
ExpenseDistribution(building_expenses) ==
    [c \in {building_expenses[i].category : i \in 1..Len(building_expenses)} |->
        SumCol(Filter(building_expenses, "category", c), "amount")]

\* Lines 28-41: the collection rate
CollectionRate(building) ==
    LET monthly_expected == NumOr(Get(building, "monthly_maintenance_expected", Num(0)), 0)
        monthly_collected == NumOr(Get(building, "monthly_maintenance_collected", Num(0)), 0)
    IN  IF monthly_expected = 0 THEN RInt(0)
        ELSE RMul(Rat(monthly_collected, monthly_expected), RInt(100))

\* Mutant of RequiredReserve: the age is not floored at 1
RequiredReserve_NoFloor(total_flats, age) ==
    total_flats * MIN_RESERVE_PER_FLAT_PER_YEAR * age

\* Line 66: the reserve required of a building
RequiredReserve(total_flats, age) ==
    total_flats * MIN_RESERVE_PER_FLAT_PER_YEAR * (IF age > 1 THEN age ELSE 1)

\* Lines 43-67: total funds, required reserve and reserve ratio
ReserveDetails(building) ==
    LET year_built == NumOr(Get(building, "year_built", Num(0)), CURRENT_YEAR)
        total_flats == NumOr(Get(building, "total_flats", Num(0)), 0)
        current_fund == NumOr(Get(building, "current_fund", Num(0)), 0)
        reserve_fund == NumOr(Get(building, "reserve_fund", Num(0)), 0)
        total_funds == current_fund + reserve_fund
    IN  IF year_built <= 0 \/ total_flats <= 0
        THEN [total_funds |-> total_funds, required_reserve |-> 1, reserve_ratio |-> RInt(0)]
        ELSE LET age == CURRENT_YEAR - year_built
                 required_reserve == RequiredReserve(total_flats, age)
             IN  [total_funds |-> total_funds,
                  required_reserve |-> required_reserve,
                  reserve_ratio |-> IF required_reserve > 0
                                    THEN Rat(total_funds, required_reserve)
                                    ELSE RInt(0)]

\* Mutant of FinPaymentPunctuality: only a zero flat count is guarded
FinPaymentPunctuality_NonZero(building, residents) ==
    LET building_residents == Filter(residents, "building_id", building["building_id"].str)
        total_flats_for_calc == NumOr(Get(building, "total_flats", Num(0)), 0)
    IN  IF ~DfEmpty(building_residents) /\ total_flats_for_calc # 0
        THEN RMul(Rat(Len(Filter(building_residents, "maintenance_due_amount", 0)),
                      total_flats_for_calc), RInt(100))
        ELSE RInt(0)

\* Lines 71-81: payment punctuality of calculate_financial_health
FinPaymentPunctuality(building, residents) ==
    LET building_residents == Filter(residents, "building_id", building["building_id"].str)
        total_flats_for_calc == NumOr(Get(building, "total_flats", Num(0)), 0)
    IN  IF ~DfEmpty(building_residents) /\ total_flats_for_calc > 0
        THEN LET flats_with_no_dues ==
                     Len(Filter(building_residents, "maintenance_due_amount", 0))
             IN  RMul(Rat(flats_with_no_dues, total_flats_for_calc), RInt(100))
        ELSE RInt(0)

\* Mutant of FinancialWeightedSum: the weights of the reserve sub-score and of the
\* payment punctuality swapped
FinancialWeightedSum_Swapped(collection_rate, reserve_ratio_score, payment_punctuality) ==
    RAdd(RAdd(RMul(collection_rate, FINANCIAL_WEIGHTS.collection_rate),
              RMul(reserve_ratio_score, FINANCIAL_WEIGHTS.payment_punctuality)),
         RMul(payment_punctuality, FINANCIAL_WEIGHTS.reserve_ratio))

\* Lines 91-95: the weighted sum, before the clamp
FinancialWeightedSum(collection_rate, reserve_ratio_score, payment_punctuality) ==
    RAdd(RAdd(RMul(collection_rate, FINANCIAL_WEIGHTS.collection_rate),
              RMul(reserve_ratio_score, FINANCIAL_WEIGHTS.reserve_ratio)),
         RMul(payment_punctuality, FINANCIAL_WEIGHTS.payment_punctuality))

\* Mutant of Clamp: the upper bound is forgotten
Clamp_NoUpper(x) == PyMax(RInt(0), x)

\* Line 106 (and 165, 233, utils.py 24): max(0, min(100, x))
Clamp(x) == PyMax(RInt(0), PyMin(RInt(100), x))

calculate_financial_health(building, transactions, residents) ==
    IF SeriesEmpty(building) THEN [score |-> RInt(0), details |-> EmptyDict]
    ELSE
    LET collection_rate == CollectionRate(building)
        reserve == ReserveDetails(building)
        reserve_ratio_score == PyMin(RInt(100), RMul(reserve.reserve_ratio, RInt(100)))
        payment_punctuality == FinPaymentPunctuality(building, residents)
        building_expenses ==
            Filter(Filter(transactions, "building_id", building["building_id"].str),
                   "transaction_type", "Expense")
        financial_score ==
            FinancialWeightedSum(collection_rate, reserve_ratio_score, payment_punctuality)
    IN  [score |-> Clamp(financial_score),
         details |->
             ("Collection Rate (%)" :> collection_rate) @@
             ("Total Funds" :> RInt(reserve.total_funds)) @@
             ("Required Reserve" :> RInt(reserve.required_reserve)) @@
             ("Reserve Ratio" :> reserve.reserve_ratio) @@
             ("Payment Punctuality (%)" :> payment_punctuality) @@
             ("Expense Distribution" :> ExpenseDistribution(building_expenses))]

\* Lines 123-130: age and age score
AgeDetails(building) ==
    LET year_built == Get(building, "year_built", Num(0))
    IN  IF isna(year_built) \/ year_built.num <= 0
        THEN [age |-> 0, age_score |-> RInt(0)]
        ELSE LET age == CURRENT_YEAR - year_built.num
             IN  [age |-> age,
                  age_score |-> PyMax(RInt(0), RSub(RInt(100), RMul(RInt(age), Rat(3, 2))))]

\* Lines 132-137: audit rating score
AuditRatingScore(building) ==
    LET audit_rating == Get(building, "structural_audit_rating", Str(""))
    IN  IF isna(audit_rating) \/ audit_rating = Str("") THEN RInt(0)
        ELSE MapGet(AUDIT_RATING_MAP, Upper(audit_rating.str), 0)

\* Mutant of RepairScore: the score is not floored at 0
RepairScore_NoFloor(num_open_issues, num_high_severity) ==
    RInt(100 - (num_open_issues * 5) - (num_high_severity * 20))

\* Line 148: repair score
RepairScore(num_open_issues, num_high_severity) ==
    PyMax(RInt(0), RInt(100 - (num_open_issues * 5) - (num_high_severity * 20)))

calculate_structural_health(building, repairs) ==
    IF SeriesEmpty(building) THEN [score |-> RInt(0), details |-> EmptyDict]
    ELSE
    LET ad == AgeDetails(building)
        audit_rating_score == AuditRatingScore(building)
        building_repairs == Filter(repairs, "building_id", building["building_id"].str)
        open_repairs == Filter(building_repairs, "status", "Open")
        num_open_issues == Len(open_repairs)
        num_high_severity == Len(Filter(open_repairs, "severity", "High"))
        repair_score == RepairScore(num_open_issues, num_high_severity)
        structural_score ==
            RAdd(RAdd(RMul(ad.age_score, STRUCTURAL_WEIGHTS.age),
                      RMul(audit_rating_score, STRUCTURAL_WEIGHTS.audit_rating)),
                 RMul(repair_score, STRUCTURAL_WEIGHTS.repairs))
    IN  [score |-> Clamp(structural_score),
         details |->
             ("Building Age (Years)" :> RInt(ad.age)) @@
             ("Audit Rating" :> Get(building, "structural_audit_rating", Str("N/A"))) @@
             ("Open Issues" :> RInt(num_open_issues)) @@
             ("High Severity Issues" :> RInt(num_high_severity)) @@
             ("Repair Log" :> building_repairs)]

\* Series.map(score_map).fillna(0) followed by .mean(), over a non-empty table
RECURSIVE SumMapped(_, _, _)
SumMapped(df, col, map) ==
    IF df = <<>> THEN 0
    ELSE (IF Head(df)[col] \in DOMAIN map THEN map[Head(df)[col]] ELSE 0)
         + SumMapped(Tail(df), col, map)

MeanMapped(df, col, map) == Rat(SumMapped(df, col, map), Len(df))

calculate_people_score(building, residents) ==
    IF SeriesEmpty(building) THEN [score |-> RInt(0), details |-> EmptyDict]
    ELSE
    LET building_residents == Filter(residents, "building_id", building["building_id"].str)
    IN  IF DfEmpty(building_residents) THEN [score |-> RInt(0), details |-> EmptyDict]
        ELSE
        LET total_flats_for_calc == NumOr(Get(building, "total_flats", Num(0)), 0)
            flats_with_no_dues == Len(Filter(building_residents, "maintenance_due_amount", 0))
            payment_punctuality ==
                IF total_flats_for_calc > 0
                THEN RMul(Rat(flats_with_no_dues, total_flats_for_calc), RInt(100))
                ELSE RInt(0)
            num_owners == Len(Filter(building_residents, "owner_or_tenant", "Owner"))
            owner_ratio ==
                IF total_flats_for_calc > 0
                THEN RMul(Rat(num_owners, total_flats_for_calc), RInt(100))
                ELSE RInt(0)
            avg_income_score == MeanMapped(building_residents, "avg_monthly_income", INCOME_SCORE_MAP)
            avg_edu_score == MeanMapped(building_residents, "education_level", EDUCATION_SCORE_MAP)
            socio_economic_score ==
                RAdd(RMul(avg_income_score, Rat(3, 5)), RMul(avg_edu_score, Rat(2, 5)))
            people_score ==
                RAdd(RAdd(RMul(payment_punctuality, PEOPLE_WEIGHTS.payment_punctuality),
                          RMul(owner_ratio, PEOPLE_WEIGHTS.owner_ratio)),
                     RMul(socio_economic_score, PEOPLE_WEIGHTS.socio_economic))
        IN  [score |-> Clamp(people_score),
             details |->
                 ("Payment Punctuality (%)" :> payment_punctuality) @@
                 ("Owner-Tenant Ratio (%)" :> owner_ratio) @@
                 ("Avg. Income Score" :> avg_income_score) @@
                 ("Avg. Education Score" :> avg_edu_score) @@
                 ("Resident Details" :> building_residents)]

-----------------------------------------------------------------------------
(* utils.py and the risk label of ml_models.py *)

\* Mutant of BhiWeightedSum: the weights of the structural and people scores swapped
BhiWeightedSum_Swapped(financial_score, structural_score, people_score) ==
    RAdd(RAdd(RMul(financial_score, BHI_WEIGHTS.financial),
              RMul(structural_score, BHI_WEIGHTS.people)),
         RMul(people_score, BHI_WEIGHTS.structural))

\* Lines 19-23: the weighted sum, before the clamp
BhiWeightedSum(financial_score, structural_score, people_score) ==
    RAdd(RAdd(RMul(financial_score, BHI_WEIGHTS.financial),
              RMul(structural_score, BHI_WEIGHTS.structural)),
         RMul(people_score, BHI_WEIGHTS.people))

calculate_bhi(financial_score, structural_score, people_score) ==
    Clamp(BhiWeightedSum(financial_score, structural_score, people_score))

get_bhi_color(bhi) ==
    IF RGe(bhi, RInt(BHI_COLOR_THRESHOLDS.green)) THEN "green"
    ELSE IF RGe(bhi, RInt(BHI_COLOR_THRESHOLDS.orange)) THEN "orange"
    ELSE "red"

\* Mutant of classify_risk_category: strict comparisons
classify_risk_category_Strict(bhi) ==
    IF RGt(bhi, RInt(80)) THEN "Low"
    ELSE IF RGt(bhi, RInt(50)) THEN "Medium"
    ELSE "High"

classify_risk_category(bhi) ==
    IF RGe(bhi, RInt(80)) THEN "Low"
    ELSE IF RGe(bhi, RInt(50)) THEN "Medium"
    ELSE "High"

-----------------------------------------------------------------------------
(* compliance.py.  A rule entry is a function on a subset of                *)
(* {id, description, parameters}; the rule document is None, {} or          *)
(* {'rules': [...]}.  An exception is a text: the message str(e).           *)

None == [none |-> TRUE]

\* "not rules": None and the empty dict are falsy
Falsy(rules) == rules = None \/ DOMAIN rules = {}

\* A step of an evaluation: a value, or the exception that was raised
Ok(v) == [ok |-> TRUE, v |-> v]
Raise(e) == [ok |-> FALSE, e |-> e]

\* pd.to_datetime(text, errors='coerce'): the Timestamp of a date text (its day
\* number, at midnight), NaT otherwise
NaT == [nat |-> TRUE]
Timestamp(day) == [day |-> day]
to_datetime(cell) == IF IsDate(cell) THEN Timestamp(cell.date) ELSE NaT

\* (today - last_inspection).days: today carries a time of day, the Timestamp is
\* at midnight, so the whole days between them are the difference of the day numbers
DaysSince(last_inspection) == today - last_inspection.day

\* str.lower() on the flag texts of the model
Lower(s) ==
    CASE s = "Yes" -> "yes" [] s = "YES" -> "yes" [] s = "True" -> "true"
      [] s = "TRUE" -> "true" [] s = "No" -> "no" [] s = "False" -> "false"
      [] OTHER -> s

\* bool(x) of a cell that is not text: NaN is a non-zero float, hence true
PyBool(cell) ==
    IF IsBool(cell) THEN cell.bool
    ELSE IF IsNum(cell) THEN cell.num # 0
    ELSE IF isna(cell) THEN TRUE
    ELSE FALSE

\* Lines 35-48 and 50-59: the inspection date of a rule: [found, days since] or
\* [not found, details]
InspectionDate(building, column, missing_text) ==
    LET last_inspection_str == Get(building, column, Str(""))
    IN  IF isna(last_inspection_str) \/ last_inspection_str = Str("")
        THEN [found |-> FALSE, details |-> missing_text]
        ELSE LET last_inspection == to_datetime(last_inspection_str)
             IN  IF last_inspection = NaT
                 THEN [found |-> FALSE, details |-> "Invalid date format"]
                 ELSE [found |-> TRUE, days |-> DaysSince(last_inspection)]

\* Mutant of FireWindow: a future date is not rejected
FireWindow_NoLower(days_diff) == days_diff <= 365

\* Lines 45-46: the days from the inspection to now are within [0, 365]
FireWindow(days_diff) == days_diff <= 365 /\ days_diff >= 0

\* Mutant of RequiredDays: age 15 already counts as old
RequiredDays_From15(age) == IF age >= 15 THEN 365 ELSE 365 * 3

\* Lines 64-67: the required interval and the window of the structural audit
RequiredDays(age) == IF age > 15 THEN 365 ELSE 365 * 3
AuditWindow(days_since, required_days) == days_since <= required_days /\ days_since >= 0

\* Mutant of ReserveTest: the target itself does not pass
ReserveTest_Strict(reserve_ratio, target) == RGt(reserve_ratio, target)

\* Line 74: the reserve test
ReserveTest(reserve_ratio, target) == RGe(reserve_ratio, target)

\* Lines 79-82 and 88-91: reading a flag
FlagMet(flag) ==
    IF IsStr(flag) THEN Lower(flag.str) \in {"true", "1", "yes"}
    ELSE PyBool(flag)

\* Lines 34-93: the body of the try for one rule: Ok([met, details]) or Raise(e)
EvalRule(building, rule, financial_details) ==
    LET rule_id == rule["id"]
    IN  CASE rule_id = "FIRE_SAFETY" ->
                LET d == InspectionDate(building, "last_fire_safety",
                                        "No fire safety inspection date found.")
                IN  IF ~d.found THEN Ok([met |-> FALSE, details |-> d.details])
                    ELSE Ok([met |-> FireWindow(d.days), details |-> "Last inspection"])
          [] rule_id = "STRUCT_AUDIT" ->
                LET d == InspectionDate(building, "last_annual_inspection",
                                        "No structural audit date found.")
                IN  IF ~d.found THEN Ok([met |-> FALSE, details |-> d.details])
                    ELSE LET got == Get(building, "year_built", Num(CURRENT_YEAR))
                             year_built == IF isna(got) THEN Num(CURRENT_YEAR) ELSE got
                         IN  IF ~IsNum(year_built)
                             THEN Raise("unsupported operand type(s) for -: 'int' and 'str'")
                             ELSE LET age == CURRENT_YEAR - year_built.num
                                      required_days == RequiredDays(age)
                                      days_since == d.days
                                  IN  Ok([met |-> AuditWindow(days_since, required_days),
                                          details |-> "Last audit"])
          [] rule_id = "RESERVE_FUND" ->
                LET reserve_ratio == Get(financial_details, "Reserve Ratio", RInt(0))
                IN  IF "parameters" \notin DOMAIN rule THEN Raise("'parameters'")
                    ELSE IF "min_ratio" \notin DOMAIN rule["parameters"] THEN Raise("'min_ratio'")
                    ELSE LET target == rule["parameters"]["min_ratio"]
                         IN  Ok([met |-> ReserveTest(reserve_ratio, target),
                                 details |-> "Current Ratio"])
          [] rule_id = "WASTE_SEGREGATION" ->
                Ok([met |-> FlagMet(Get(building, "waste_segregation_implemented", Bool(FALSE))),
                    details |-> "Based on society records."])
          [] rule_id = "SEWAGE_SYSTEM" ->
                Ok([met |-> FlagMet(Get(building, "sewage_system_approved", Bool(FALSE))),
                    details |-> "Based on NMMC approval records."])
          [] OTHER -> Ok([met |-> FALSE, details |-> ""])

\* Lines 95-102: the outcome appended for one rule; the detail of an Error,
\* f"Could not check rule: {e}", is represented by the message e
Outcome(description, step) ==
    IF step.ok
    THEN [Rule |-> description,
          Status |-> IF step.v.met THEN "Pass" ELSE "Fail",
          Details |-> step.v.details]
    ELSE [Rule |-> description, Status |-> "Error", Details |-> step.e]

\* Lines 28-32: rule['id'] and rule['description'] are read before the try
RuleHeader(rule) ==
    IF "id" \notin DOMAIN rule THEN Raise("KeyError: 'id'")
    ELSE IF "description" \notin DOMAIN rule THEN Raise("KeyError: 'description'")
    ELSE Ok(rule["description"])

\* Lines 28-102: the loop over rules['rules'], from the state [pass_count, results]
RECURSIVE RuleLoop(_, _, _, _)
RuleLoop(building, rule_list, financial_details, acc) ==
    IF rule_list = <<>> THEN Ok(acc)
    ELSE LET rule == Head(rule_list)
             header == RuleHeader(rule)
         IN  IF ~header.ok THEN header
             ELSE LET step == EvalRule(building, rule, financial_details)
                      out == Outcome(header.v, step)
                  IN  RuleLoop(building, Tail(rule_list), financial_details,
                               [pass_count |-> acc.pass_count
                                                + (IF out.Status = "Pass" THEN 1 ELSE 0),
                                results |-> Append(acc.results, out)])

\* Mutant of ComplianceScore: the share of passes is not scaled to a percentage
ComplianceScore_Share(pass_count, rule_list) ==
    IF rule_list # <<>> THEN Rat(pass_count, Len(rule_list)) ELSE RInt(0)

\* Line 104: the compliance score
ComplianceScore(pass_count, rule_list) ==
    IF rule_list # <<>> THEN RMul(Rat(pass_count, Len(rule_list)), RInt(100)) ELSE RInt(0)

\* The call: [raised |-> FALSE, score, results] or [raised |-> TRUE, error]
check_nmmc_compliance(building, rules, financial_details) ==
    IF Falsy(rules) THEN [raised |-> FALSE, score |-> RInt(0), results |-> <<>>]
    ELSE LET loop == RuleLoop(building, rules["rules"], financial_details,
                              [pass_count |-> 0, results |-> <<>>])
         IN  IF ~loop.ok THEN [raised |-> TRUE, error |-> loop.e]
             ELSE [raised |-> FALSE,
                   score |-> ComplianceScore(loop.v.pass_count, rules["rules"]),
                   results |-> loop.v.results]

-----------------------------------------------------------------------------
(* The inputs the calls are made on *)

ABSENT == [absent |-> TRUE]

\* A complete, well-formed row of the buildings table
BaseBuilding ==
    [building_id |-> Str("B1"),
     building_name |-> Str("Tower"),
     year_built |-> Num(CURRENT_YEAR - 5),
     total_flats |-> Num(2),
     current_fund |-> Num(3000),
     reserve_fund |-> Num(2000),
     monthly_maintenance_expected |-> Num(100),
     monthly_maintenance_collected |-> Num(90),
     structural_audit_rating |-> Str("A"),
     last_annual_inspection |-> DateStr(today - 30),
     last_fire_safety |-> DateStr(today - 30),
     waste_segregation_implemented |-> Bool(TRUE),
     sewage_system_approved |-> Bool(TRUE),
     latitude |-> Num(19),
     longitude |-> Num(73)]

\* The base row with the cells of over written over it; an ABSENT cell is a
\* column the table does not have
MkRow(over) ==
    LET full == over @@ BaseBuilding
    IN  [k \in {x \in DOMAIN full : full[x] # ABSENT} |-> full[k]]

Resident(bid, due, owner, income, edu) ==
    [building_id |-> bid, maintenance_due_amount |-> due, owner_or_tenant |-> owner,
     avg_monthly_income |-> income, education_level |-> edu]

Repair(bid, status, severity) == [building_id |-> bid, status |-> status, severity |-> severity]

Transaction(bid, type, category, amount) ==
    [building_id |-> bid, transaction_type |-> type, category |-> category, amount |-> amount]

\* (expected, collected) of the monthly maintenance
MaintenancePairs ==
    {<<NaN, NaN>>, <<ABSENT, Num(90)>>, <<Num(0), Num(90)>>, <<Num(-100), Num(90)>>,
     <<Num(100), Num(90)>>, <<Num(100), Num(150)>>}

\* (current_fund, reserve_fund)
FundPairs == {<<NaN, NaN>>, <<Num(3000), Num(2000)>>, <<Num(9000), ABSENT>>}

YearValues == {NaN, Num(0), Num(CURRENT_YEAR - 5), Num(CURRENT_YEAR), Num(CURRENT_YEAR - 80)}
FlatsValues == {NaN, Num(-1), Num(0), Num(1), Num(2)}
RatingValues == {NaN, ABSENT, Str(""), Str("A"), Str("b"), Str("F"), Str("Z")}

\* Rows that differ in what calculate_financial_health reads of a resident
FinResidentRows ==
    {Resident("B1", 0, "Owner", "High", "Graduate"),
     Resident("B1", 500, "Owner", "High", "Graduate"),
     Resident("B2", 0, "Owner", "High", "Graduate")}

PeopleResidentRows ==
    {Resident("B1", due, owner, income, edu) :
        due \in {0, 500}, owner \in {"Owner", "Tenant"},
        income \in {"High", "Unknown"}, edu \in {"Graduate", "Unknown"}}
    \cup {Resident("B1", 0, "Tenant", "Low", "High School"),
          Resident("B2", 0, "Owner", "High", "Graduate")}

RepairRows ==
    {Repair("B1", status, severity) : status \in {"Open", "Closed"}, severity \in {"High", "Low"}}
    \cup {Repair("B2", "Open", "High")}

TransactionRows ==
    {Transaction("B1", "Expense", "Utilities", 100),
     Transaction("B1", "Income", "Maintenance", 100)}

\* Sub-scores handed to calculate_bhi, in and out of [0,100]
ScoreGrid == {RInt(-10), RInt(0), RInt(50), RInt(60), RInt(70), RInt(90), RInt(100),
              RInt(150), Rat(197, 2)}

\* Index values around the two thresholds
TierInputs == {RInt(-1), RInt(0), RInt(49), Rat(499, 10), RInt(50), Rat(501, 10), RInt(78),
               Rat(799, 10), RInt(80), Rat(801, 10), RInt(100)}

\* Rule entries
Rule(id, description) == [id |-> id, description |-> description]
ReserveRule(min_ratio) ==
    [id |-> "RESERVE_FUND", description |-> "Reserve fund",
     parameters |-> [min_ratio |-> min_ratio]]

WellFormedRules ==
    {Rule("FIRE_SAFETY", "Fire audit"), Rule("STRUCT_AUDIT", "Structural audit"),
     ReserveRule(Rat(4, 5)),
     Rule("WASTE_SEGREGATION", "Waste"), Rule("SEWAGE_SYSTEM", "Sewage"),
     Rule("PARKING", "Parking")}

\* A RESERVE_FUND entry without parameters, an entry without id, one without
\* description
BadRules ==
    {Rule("RESERVE_FUND", "Reserve fund, no parameters"),
     [description |-> "No id"],
     [id |-> "PARKING"]}

RuleEntries == WellFormedRules \cup BadRules

RuleDocs == {None, EmptyDict} \cup {[rules |-> l] : l \in SeqsUpTo(RuleEntries, MaxRules)}

\* The ids a rule document dispatches on
RuleIds(rules) ==
    IF Falsy(rules) THEN {}
    ELSE {rules["rules"][i]["id"] :
            i \in {j \in 1..Len(rules["rules"]) : "id" \in DOMAIN rules["rules"][j]}}

\* Cells a rule reads; a column no rule of the document reads keeps its base cell
FireDates ==
    {NaN, ABSENT, Str(""), Str("soon")} \cup {DateStr(today - d) : d \in {-1, 0, 365, 366}}

\* (last_annual_inspection, year_built)
AuditCases ==
    ({DateStr(today - d) : d \in {-1, 0, 365, 366, 1095, 1096}}
        \X {Num(CURRENT_YEAR - 15), Num(CURRENT_YEAR - 16)})
    \cup ({DateStr(today - 366), DateStr(today - 1096)} \X {NaN, ABSENT})
    \cup {<<NaN, Num(CURRENT_YEAR - 16)>>, <<Str("n/a"), Num(CURRENT_YEAR - 5)>>,
          <<ABSENT, Num(CURRENT_YEAR - 5)>>, <<DateStr(today - 30), Str("unknown")>>}
\* current_fund beside the base reserve_fund of 2000
ReserveFunds == {Num(500), Num(2000), Num(3000)}
FlagValues == {Bool(TRUE), Bool(FALSE), Str("Yes"), Str("TRUE"), Str("no"), Str(""), NaN,
               Num(0), Num(1), ABSENT}

Choices(ids, id, cells, base) == IF id \in ids THEN cells ELSE {base}

-----------------------------------------------------------------------------
(* The calls.  One call is made at a time: from idle, a function is called  *)
(* on drawn arguments and returns; Return forgets the call.                 *)

Idle == [fn |-> "idle"]
NoRet == [none |-> TRUE]

BatchIdle ==
    /\ buildings_df = <<>>
    /\ residents_df = <<>>
    /\ transactions_df = <<>>
    /\ repairs_df = <<>>
    /\ nmmc_rules = None
    /\ pc = "off"
    /\ idx = 0
    /\ processed_data = <<>>
    /\ main_df = <<>>
    /\ buildings_csv = <<>>

Clock ==
    /\ CURRENT_YEAR \in {2026}
    /\ today \in {20763}

Init ==
    /\ Clock
    /\ call = Idle
    /\ ret = NoRet
    /\ BatchIdle

CallFinancial ==
    /\ call = Idle
    /\ \E m \in MaintenancePairs, y \in (YearValues \ {Num(CURRENT_YEAR - 80)}) \cup {ABSENT},
          f \in FlatsValues, funds \in FundPairs,
          residents \in SeqsUpTo(FinResidentRows, MaxResidents),
          transactions \in SeqsUpTo(TransactionRows, MaxTransactions) :
          LET building == MkRow([monthly_maintenance_expected |-> m[1],
                                 monthly_maintenance_collected |-> m[2],
                                 year_built |-> y, total_flats |-> f,
                                 current_fund |-> funds[1], reserve_fund |-> funds[2]])
          IN  \* a table without the column year_built is drawn with empty tables
              /\ y = ABSENT => (residents = <<>> /\ transactions = <<>>)
              \* more than two resident rows are drawn for the base amounts only
              /\ Len(residents) <= 2
                    \/ (m = <<BaseBuilding.monthly_maintenance_expected,
                               BaseBuilding.monthly_maintenance_collected>>
                        /\ funds = <<BaseBuilding.current_fund, BaseBuilding.reserve_fund>>)
              /\ call' = [fn |-> "calculate_financial_health", building |-> building,
                          transactions |-> transactions, residents |-> residents]
              /\ ret' = calculate_financial_health(building, transactions, residents)
    /\ UNCHANGED <<clockVars, batchVars>>

CallStructural ==
    /\ call = Idle
    /\ \E y \in YearValues \cup {ABSENT}, r \in RatingValues,
          repairs \in SeqsUpTo(RepairRows, MaxRepairs) :
          LET building == MkRow([year_built |-> y, structural_audit_rating |-> r])
          IN  \* long repair logs are drawn for the base year and rating only
              /\ Len(repairs) <= 1
                    \/ (y = BaseBuilding.year_built /\ r = BaseBuilding.structural_audit_rating)
              /\ call' = [fn |-> "calculate_structural_health", building |-> building,
                          repairs |-> repairs]
              /\ ret' = calculate_structural_health(building, repairs)
    /\ UNCHANGED <<clockVars, batchVars>>

CallPeople ==
    /\ call = Idle
    /\ \E f \in FlatsValues \cup {ABSENT},
          residents \in SeqsUpTo(PeopleResidentRows, MaxResidents) :
          LET building == MkRow([total_flats |-> f])
          IN  /\ call' = [fn |-> "calculate_people_score", building |-> building,
                          residents |-> residents]
              /\ ret' = calculate_people_score(building, residents)
    /\ UNCHANGED <<clockVars, batchVars>>

\* The three primitives on an empty Series
CallOnEmptySeries ==
    /\ call = Idle
    /\ \E fn \in {"calculate_financial_health", "calculate_structural_health",
                  "calculate_people_score"} :
          /\ call' = [fn |-> fn, building |-> EmptyDict]
          /\ ret' = CASE fn = "calculate_financial_health" ->
                            calculate_financial_health(EmptyDict, <<>>, <<>>)
                      [] fn = "calculate_structural_health" ->
                            calculate_structural_health(EmptyDict, <<>>)
                      [] OTHER -> calculate_people_score(EmptyDict, <<>>)
    /\ UNCHANGED <<clockVars, batchVars>>

-----------------------------------------------------------------------------
(* feature_engineering.py: create_ml_features.  The numeric cells of the    *)
(* resident, transaction and repair rows handed to it are cells as well:    *)
(* maintenance_due_amount, amount and estimated_cost may be NaN.  A feature *)
(* is a rational or NaN.                                                    *)

\* "0 if pd.isna(x) else x" of a numeric cell
ZeroIfNa(cell) == IF isna(cell) THEN 0 ELSE cell.num

\* df[df['building_id'] == building_id]
RowsOf(df, building_id) ==
    LET Mine(row) == row.building_id = building_id
    IN  SelectSeq(df, Mine)

\* len(df[df[col] == v]) for a text column
CountText(df, col, v) == Cardinality({i \in 1..Len(df) : df[i][col] = v})

\* len(df[df[col] == 0]) for a numeric column: NaN == 0 is false
CountZero(df, col) == Cardinality({i \in 1..Len(df) : df[i][col] = Num(0)})

\* Series.sum(): the NaN cells are skipped, the sum of none is 0
RECURSIVE SumCells(_, _)
SumCells(df, col) ==
    IF df = <<>> THEN 0
    ELSE (IF IsNum(Head(df)[col]) THEN Head(df)[col].num ELSE 0) + SumCells(Tail(df), col)

\* Series.mean(): the NaN cells are skipped, the mean of none is NaN
MeanCells(df, col) ==
    LET counted == Cardinality({i \in 1..Len(df) : IsNum(df[i][col])})
    IN  IF counted = 0 THEN NaN ELSE Rat(SumCells(df, col), counted)

\* 'col' in df.columns, for a table with rows
HasColumn(df, col) == df # <<>> /\ col \in DOMAIN df[1]

\* Lines 105-107: the sum of the amounts of a transaction type, and of an
\* expense category
AmountOfType(building_transactions, type) ==
    LET OfType(row) == row.transaction_type = type
    IN  SumCells(SelectSeq(building_transactions, OfType), "amount")
ExpenseOfCategory(building_transactions, category) ==
    LET Match(row) == row.transaction_type = "Expense" /\ row.category = category
    IN  SumCells(SelectSeq(building_transactions, Match), "amount")

\* Lines 110-111: "1 if flag else 0"
FlagFeature(cell) ==
    IF (IF IsStr(cell) THEN cell.str # "" ELSE PyBool(cell)) THEN RInt(1) ELSE RInt(0)

\* Lines 30-149: the feature record of one building with a building_id
BuildingFeatures(building, residents_tbl, transactions_tbl, repairs_tbl) ==
    LET building_id == building["building_id"].str
        year_built == Get(building, "year_built", Num(CURRENT_YEAR))
        age == IF ~isna(year_built) THEN CURRENT_YEAR - year_built.num ELSE 0
        total_flats == ZeroIfNa(Get(building, "total_flats", Num(0)))
        current_fund == ZeroIfNa(Get(building, "current_fund", Num(0)))
        reserve_fund == ZeroIfNa(Get(building, "reserve_fund", Num(0)))
        monthly_collected == ZeroIfNa(Get(building, "monthly_maintenance_collected", Num(0)))
        monthly_expected == ZeroIfNa(Get(building, "monthly_maintenance_expected", Num(0)))
        collection_rate == IF monthly_expected > 0
                           THEN RMul(Rat(monthly_collected, monthly_expected), RInt(100))
                           ELSE RInt(0)
        total_funds == current_fund + reserve_fund
        required_reserve ==
            IF total_flats > 0
            THEN total_flats * MIN_RESERVE_PER_FLAT_PER_YEAR * (IF age > 1 THEN age ELSE 1)
            ELSE 1
        reserve_ratio == IF required_reserve > 0 THEN Rat(total_funds, required_reserve)
                         ELSE RInt(0)
        audit_rating == Get(building, "structural_audit_rating", Str(""))
        audit_rating_score ==
            IF ~isna(audit_rating) THEN MapGet(AUDIT_RATING_MAP, Upper(audit_rating.str), 0)
            ELSE RInt(0)
        building_repairs == RowsOf(repairs_tbl, building_id)
        open_repairs == Filter(building_repairs, "status", "Open")
        building_residents == RowsOf(residents_tbl, building_id)
        has_residents == ~DfEmpty(building_residents)
        building_transactions == RowsOf(transactions_tbl, building_id)
    IN  [building_id |-> building_id,
         age |-> RInt(age),
         total_flats |-> RInt(total_flats),
         total_residents |-> RInt(Len(building_residents)),
         current_fund |-> RInt(current_fund),
         reserve_fund |-> RInt(reserve_fund),
         total_funds |-> RInt(total_funds),
         monthly_collected |-> RInt(monthly_collected),
         monthly_expected |-> RInt(monthly_expected),
         collection_rate |-> collection_rate,
         reserve_ratio |-> reserve_ratio,
         audit_rating_score |-> audit_rating_score,
         num_repairs |-> RInt(Len(building_repairs)),
         num_open_issues |-> RInt(Len(open_repairs)),
         num_high_severity |-> RInt(Len(Filter(open_repairs, "severity", "High"))),
         total_repair_cost |-> IF HasColumn(building_repairs, "estimated_cost")
                               THEN RInt(SumCells(building_repairs, "estimated_cost"))
                               ELSE RInt(0),
         payment_punctuality |->
             IF has_residents /\ total_flats > 0
             THEN RMul(Rat(CountZero(building_residents, "maintenance_due_amount"),
                           total_flats), RInt(100))
             ELSE RInt(0),
         owner_ratio |->
             IF has_residents /\ total_flats > 0
             THEN RMul(Rat(CountText(building_residents, "owner_or_tenant", "Owner"),
                           total_flats), RInt(100))
             ELSE RInt(0),
         avg_dues |-> IF has_residents
                      THEN MeanCells(building_residents, "maintenance_due_amount")
                      ELSE RInt(0),
         total_dues |-> RInt(SumCells(building_residents, "maintenance_due_amount")),
         avg_income_score |->
             IF has_residents
             THEN MeanMapped(building_residents, "avg_monthly_income", INCOME_SCORE_MAP)
             ELSE RInt(0),
         avg_edu_score |->
             IF has_residents
             THEN MeanMapped(building_residents, "education_level", EDUCATION_SCORE_MAP)
             ELSE RInt(0),
         total_expenses |-> RInt(AmountOfType(building_transactions, "Expense")),
         total_income |-> RInt(AmountOfType(building_transactions, "Income")),
         waste_segregation |->
             FlagFeature(Get(building, "waste_segregation_implemented", Bool(FALSE))),
         sewage_approved |-> FlagFeature(Get(building, "sewage_system_approved", Bool(FALSE))),
         expense_security_salaries |->
             RInt(ExpenseOfCategory(building_transactions, "Security Salaries")),
         expense_utilities |-> RInt(ExpenseOfCategory(building_transactions, "Utilities")),
         expense_repairs |-> RInt(ExpenseOfCategory(building_transactions, "Repairs")),
         expense_amenities |-> RInt(ExpenseOfCategory(building_transactions, "Amenities"))]

\* Lines 25-28: a building without a building_id is skipped
HasBuildingId(building) ==
    LET building_id == Get(building, "building_id", Str(""))
    IN  ~isna(building_id) /\ building_id # Str("")

\* Lines 23-153: one feature record per building that has a building_id
RECURSIVE create_ml_features(_, _, _, _)
create_ml_features(buildings_tbl, residents_tbl, transactions_tbl, repairs_tbl) ==
    IF buildings_tbl = <<>> THEN <<>>
    ELSE LET rest == create_ml_features(Tail(buildings_tbl), residents_tbl,
                                        transactions_tbl, repairs_tbl)
         IN  IF HasBuildingId(Head(buildings_tbl))
             THEN <<BuildingFeatures(Head(buildings_tbl), residents_tbl,
                                     transactions_tbl, repairs_tbl)>> \o rest
             ELSE rest

-----------------------------------------------------------------------------
(* ml_models.py: train_ml_models, as far as the risk classifier and the     *)
(* regressor are set or left unset.  The fitted models themselves are       *)
(* represented by a token.                                                  *)

\* A fitted scikit-learn model
Fitted(kind) == [model |-> kind]

\* Line 64: bhi_scores.fillna(0)
FillNa0(bhi_scores) ==
    [i \in 1..Len(bhi_scores) |-> IF isna(bhi_scores[i]) THEN RInt(0) ELSE bhi_scores[i]]

\* Line 211: the risk label of each sample
RiskLabels(y_bhi) == [i \in 1..Len(y_bhi) |-> classify_risk_category(y_bhi[i])]

\* y.value_counts().to_dict()
ValueCounts(y) ==
    [c \in {y[i] : i \in 1..Len(y)} |-> Cardinality({i \in 1..Len(y) : y[i] = c})]

\* Mutant of EnoughForClassifier: one class is taken to be enough
EnoughForClassifier_OneClass(n_classes, n_samples) == n_classes >= 1 /\ n_samples >= 4

\* Line 223: the test before the classifier is trained
EnoughForClassifier(n_classes, n_samples) == n_classes >= 2 /\ n_samples >= 4

\* Lines 82-130, train_risk_classifier: Ok(model) or Raise(e).  The stratified
\* split of a fifth of the samples raises ValueError when the test part or the
\* train part has fewer samples than there are classes.
train_risk_classifier(y) ==
    LET class_counts == ValueCounts(y)
        n == Len(y)
        n_classes == Cardinality(DOMAIN class_counts)
        use_stratify == (\A c \in DOMAIN class_counts : class_counts[c] >= 2) /\ n_classes >= 2
        n_test == (n + 4) \div 5
    IN  IF ~use_stratify /\ n < 4 THEN Raise("Insufficient data for training")
        ELSE IF use_stratify /\ (n_test < n_classes \/ n - n_test < n_classes)
        THEN Raise("ValueError: test_size should be greater or equal to the number of classes")
        ELSE Ok(Fitted("RandomForestClassifier"))

\* Lines 195-282, train_ml_models.  fit_attempted records whether
\* train_risk_classifier was called; the regressor is trained under its own
\* try (254-268), its split raising when there are fewer than 2 samples.
train_ml_models(bhi_scores) ==
    LET y_bhi == FillNa0(bhi_scores)
        y_risk == RiskLabels(y_bhi)
        class_counts == ValueCounts(y_risk)
        unique_classes == DOMAIN class_counts
        bhi_regressor == IF Len(y_bhi) >= 2 THEN Fitted("RandomForestRegressor") ELSE None
    IN  IF EnoughForClassifier(Cardinality(unique_classes), Len(y_bhi))
        THEN LET trained == train_risk_classifier(y_risk)
             IN  [risk_classifier |-> IF trained.ok THEN trained.v ELSE None,
                  class_distribution |-> class_counts,
                  fit_attempted |-> TRUE,
                  bhi_regressor |-> bhi_regressor]
        ELSE [risk_classifier |-> None,
              class_distribution |-> class_counts,
              fit_attempted |-> FALSE,
              bhi_regressor |-> bhi_regressor]

\* Lines 82-110 of train_risk_classifier: whether the split is stratified,
\* whether the class-imbalance warning is given, whether ValueError is raised
\* for fewer than 4 samples
RiskSplit(y) ==
    LET class_counts == ValueCounts(y)
        min_class_at_least_2 == \A c \in DOMAIN class_counts : class_counts[c] >= 2
        use_stratify == min_class_at_least_2 /\ Cardinality(DOMAIN class_counts) >= 2
        insufficient == ~use_stratify /\ Len(y) < 4
    IN  [stratify |-> use_stratify,
         insufficient |-> insufficient,
         warned |-> ~use_stratify /\ ~insufficient /\ ~min_class_at_least_2]

\* train_risk_classifier called on a label series of its own
CallTrainClassifier ==
    /\ call = Idle
    /\ \E y \in SeqsUpTo({"Low", "High"}, MaxSamples) :
          /\ y # <<>>
          /\ call' = [fn |-> "train_risk_classifier", y |-> y]
          /\ ret' = [split |-> RiskSplit(y), trained |-> train_risk_classifier(y)]
    /\ UNCHANGED <<clockVars, batchVars>>

\* BHI scores of the training samples: a missing score and one score of each
\* risk class and on each threshold
BhiSamples == {NaN, RInt(40), RInt(50), RInt(80)}

CallTrain ==
    /\ call = Idle
    /\ \E bhi_scores \in SeqsUpTo(BhiSamples, MaxSamples) :
          /\ call' = [fn |-> "train_ml_models", bhi_scores |-> bhi_scores]
          /\ ret' = train_ml_models(bhi_scores)
    /\ UNCHANGED <<clockVars, batchVars>>

\* Tables handed to create_ml_features: a complete building, one whose numeric
\* cells, rating and flags are all missing, one without building_id, one of
\* a single flat that collected more than expected, one without a year of
\* construction that expects a negative amount, and one without flats
FeatureBuildingRows ==
    {MkRow(EmptyDict),
     MkRow([year_built |-> NaN, total_flats |-> NaN, current_fund |-> NaN,
            reserve_fund |-> NaN, monthly_maintenance_expected |-> NaN,
            monthly_maintenance_collected |-> NaN, structural_audit_rating |-> NaN,
            waste_segregation_implemented |-> NaN, sewage_system_approved |-> ABSENT]),
     MkRow([building_id |-> NaN]),
     MkRow([building_id |-> Str("B2"), total_flats |-> Num(1),
            monthly_maintenance_collected |-> Num(150)]),
     MkRow([building_id |-> Str("B3"), year_built |-> Num(0),
            monthly_maintenance_expected |-> Num(-100)]),
     MkRow([building_id |-> Str("B4"), total_flats |-> Num(0)])}

FeatureResidentRows ==
    {Resident("B1", Num(0), "Owner", "High", "Graduate"),
     Resident("B1", NaN, "Tenant", "Unknown", "Unknown"),
     Resident("B2", Num(0), "Owner", "Low", "High School")}

FeatureTransactionRows ==
    {Transaction("B1", "Expense", "Utilities", Num(100)),
     Transaction("B1", "Expense", "Repairs", NaN),
     Transaction("B1", "Income", "Maintenance", NaN)}

FeatureRepairRows ==
    {[building_id |-> "B1", status |-> "Open", severity |-> "High", estimated_cost |-> NaN],
     Repair("B1", "Open", "Low")}

CallFeatures ==
    /\ call = Idle
    /\ \E buildings \in SeqsUpTo(FeatureBuildingRows, MaxBuildings),
          residents \in SeqsUpTo(FeatureResidentRows, MaxResidents),
          transactions \in SeqsUpTo(FeatureTransactionRows, MaxTransactions),
          repairs \in SeqsUpTo(FeatureRepairRows, 1) :
          \* resident rows are drawn beside empty transaction and repair tables
          /\ residents = <<>> \/ (transactions = <<>> /\ repairs = <<>>)
          \* the buildings B3 and B4 are drawn alone in their table
          /\ Len(buildings) <= 1
                \/ \A i \in 1..Len(buildings) :
                      Get(buildings[i], "building_id", NaN) \notin {Str("B3"), Str("B4")}
          /\ call' = [fn |-> "create_ml_features", buildings |-> buildings,
                      residents |-> residents, transactions |-> transactions,
                      repairs |-> repairs]
          /\ ret' = [features |-> create_ml_features(buildings, residents, transactions,
                                                     repairs)]
    /\ UNCHANGED <<clockVars, batchVars>>

\* pd.DataFrame(), the table load_csv returns for a file it cannot read
\* (data_loader.py 30-38): no rows and no columns.  The first df['building_id']
\* of a primitive on such a table raises KeyError.  no_columns names the tables
\* of the call that are such frames.
OnFrames(fn, building, no_columns) ==
    IF SeriesEmpty(building) \/ no_columns = {}
    THEN CASE fn = "calculate_financial_health" -> calculate_financial_health(building, <<>>, <<>>)
           [] fn = "calculate_structural_health" -> calculate_structural_health(building, <<>>)
           [] OTHER -> calculate_people_score(building, <<>>)
    ELSE [raised |-> TRUE, error |-> "KeyError: 'building_id'"]

\* The tables a primitive reads
TablesOf(fn) ==
    CASE fn = "calculate_financial_health" -> {"residents_df", "transactions_df"}
      [] fn = "calculate_structural_health" -> {"repairs_df"}
      [] OTHER -> {"residents_df"}

\* The primitives on tables that were not loaded
CallOnEmptyFrame ==
    /\ call = Idle
    /\ \E fn \in {"calculate_financial_health", "calculate_structural_health",
                  "calculate_people_score"},
          building \in {BaseBuilding, EmptyDict} :
          \E no_columns \in (SUBSET TablesOf(fn)) \ {{}} :
              /\ call' = [fn |-> fn, building |-> building, residents |-> <<>>,
                          transactions |-> <<>>, repairs |-> <<>>,
                          no_columns |-> no_columns]
              /\ ret' = OnFrames(fn, building, no_columns)
    /\ UNCHANGED <<clockVars, batchVars>>

CallBhi ==
    /\ call = Idle
    /\ \E f \in ScoreGrid, s \in ScoreGrid, p \in ScoreGrid :
          /\ call' = [fn |-> "calculate_bhi", financial_score |-> f,
                      structural_score |-> s, people_score |-> p]
          /\ ret' = [score |-> calculate_bhi(f, s, p)]
    /\ UNCHANGED <<clockVars, batchVars>>

\* The color of a result row and the risk label the trainer derives from its BHI
CallTier ==
    /\ call = Idle
    /\ \E bhi \in TierInputs \cup {calculate_bhi(f, RInt(70), RInt(60)) : f \in ScoreGrid} :
          /\ call' = [fn |-> "tier", bhi |-> bhi]
          /\ ret' = [color |-> get_bhi_color(bhi), risk |-> classify_risk_category(bhi)]
    /\ UNCHANGED <<clockVars, batchVars>>

CallCompliance ==
    /\ call = Idle
    /\ \E rules \in RuleDocs :
          \* a document of more than two rules is drawn beside the base building
          LET ids == IF Falsy(rules) \/ Len(rules["rules"]) <= 2 THEN RuleIds(rules) ELSE {}
          IN  \E fire \in Choices(ids, "FIRE_SAFETY", FireDates, BaseBuilding.last_fire_safety),
                 a \in Choices(ids, "STRUCT_AUDIT", AuditCases,
                               <<BaseBuilding.last_annual_inspection, BaseBuilding.year_built>>),
                 fund \in Choices(ids, "RESERVE_FUND", ReserveFunds, BaseBuilding.current_fund),
                 waste \in Choices(ids, "WASTE_SEGREGATION", FlagValues, Bool(TRUE)),
                 \* beside the waste rule the sewage flag takes fewer values
                 sewage \in Choices(ids, "SEWAGE_SYSTEM",
                                    IF "WASTE_SEGREGATION" \in ids
                                    THEN {Bool(TRUE), Bool(FALSE), Str("no"), NaN}
                                    ELSE FlagValues,
                                    Bool(TRUE)) :
                 LET y == a[2]
                     building == MkRow([last_fire_safety |-> fire,
                                        last_annual_inspection |-> a[1],
                                        year_built |-> y, current_fund |-> fund,
                                        waste_segregation_implemented |-> waste,
                                        sewage_system_approved |-> sewage])
                     computed == IF y = ABSENT \/ IsNum(y) \/ isna(y)
                                 THEN {calculate_financial_health(building, <<>>, <<>>).details}
                                 ELSE {}
                 IN  \E financial_details \in
                        computed \cup (IF computed = {}
                                          \/ ("RESERVE_FUND" \in ids
                                              /\ fund = BaseBuilding.current_fund)
                                       THEN {EmptyDict} ELSE {}) :
                        /\ call' = [fn |-> "check_nmmc_compliance", building |-> building,
                                    rules |-> rules, financial_details |-> financial_details]
                        /\ ret' = check_nmmc_compliance(building, rules, financial_details)
    /\ UNCHANGED <<clockVars, batchVars>>

Return ==
    /\ call # Idle
    /\ call' = Idle
    /\ ret' = NoRet
    /\ UNCHANGED <<clockVars, batchVars>>

Next ==
    \/ CallFinancial
    \/ CallStructural
    \/ CallPeople
    \/ CallOnEmptySeries
    \/ CallOnEmptyFrame
    \/ CallBhi
    \/ CallTier
    \/ CallTrain
    \/ CallTrainClassifier
    \/ CallFeatures
    \/ CallCompliance
    \/ Return

Spec == Init /\ [][Next]_vars

-----------------------------------------------------------------------------
(* app.py: the functions its main loop calls (lines 47-242).  They read the *)
(* cells with building[...]; the rows of the batch are complete (every      *)
(* column present) and their numeric cells are numbers, as Python int and   *)
(* float: a division by zero raises ZeroDivisionError.  A function returns  *)
(* Ok(result) or Raise(message).  The keys of the details and the Status    *)
(* texts are written without the currency sign and the pictographs of the   *)
(* source.  A date cell is a date text or a text pd.to_datetime rejects.    *)

app_calculate_financial_health(building, transactions, residents) ==
    IF SeriesEmpty(building) THEN Ok([score |-> RInt(0), details |-> EmptyDict])
    ELSE IF building["monthly_maintenance_expected"].num = 0
    THEN Raise("ZeroDivisionError")
    ELSE
    LET collection_rate ==
            RMul(Rat(building["monthly_maintenance_collected"].num,
                     building["monthly_maintenance_expected"].num), RInt(100))
        age == CURRENT_YEAR - building["year_built"].num
        required_reserve ==
            building["total_flats"].num * MIN_RESERVE_PER_FLAT_PER_YEAR
                * (IF age > 1 THEN age ELSE 1)
        total_funds == building["current_fund"].num + building["reserve_fund"].num
        reserve_ratio == IF required_reserve > 0 THEN Rat(total_funds, required_reserve)
                         ELSE RInt(1)
        reserve_ratio_score == PyMin(RInt(100), RMul(reserve_ratio, RInt(100)))
        building_residents == Filter(residents, "building_id", building["building_id"].str)
    IN  IF ~DfEmpty(building_residents) /\ building["total_flats"].num = 0
        THEN Raise("ZeroDivisionError")
        ELSE
        LET payment_punctuality ==
                IF ~DfEmpty(building_residents)
                THEN RMul(Rat(Len(Filter(building_residents, "maintenance_due_amount", 0)),
                              building["total_flats"].num), RInt(100))
                ELSE RInt(0)
            building_expenses ==
                Filter(Filter(transactions, "building_id", building["building_id"].str),
                       "transaction_type", "Expense")
            financial_score ==
                RAdd(RAdd(RMul(collection_rate, Rat(2, 5)), RMul(reserve_ratio_score, Rat(2, 5))),
                     RMul(payment_punctuality, Rat(1, 5)))
        IN  Ok([score |-> Clamp(financial_score),
                details |->
                    ("Collection Rate (%)" :> collection_rate) @@
                    ("Total Funds" :> RInt(total_funds)) @@
                    ("Required Reserve" :> RInt(required_reserve)) @@
                    ("Reserve Ratio" :> reserve_ratio) @@
                    ("Payment Punctuality (%)" :> payment_punctuality) @@
                    ("Expense Distribution" :> ExpenseDistribution(building_expenses))])

app_calculate_structural_health(building, repairs) ==
    IF SeriesEmpty(building) THEN Ok([score |-> RInt(0), details |-> EmptyDict])
    ELSE
    LET age == CURRENT_YEAR - building["year_built"].num
        age_score == PyMax(RInt(0), RSub(RInt(100), RMul(RInt(age), Rat(3, 2))))
        rating == building["structural_audit_rating"]
        audit_rating_score ==
            IF IsStr(rating) THEN MapGet(AUDIT_RATING_MAP, rating.str, 0) ELSE RInt(0)
        building_repairs == Filter(repairs, "building_id", building["building_id"].str)
        open_repairs == Filter(building_repairs, "status", "Open")
        num_open_issues == Len(open_repairs)
        num_high_severity == Len(Filter(open_repairs, "severity", "High"))
        repair_score ==
            PyMax(RInt(0), RInt(100 - (num_open_issues * 5) - (num_high_severity * 20)))
        structural_score ==
            RAdd(RAdd(RMul(age_score, Rat(1, 5)), RMul(audit_rating_score, Rat(1, 2))),
                 RMul(repair_score, Rat(3, 10)))
    IN  Ok([score |-> Clamp(structural_score),
            details |->
                ("Building Age (Years)" :> RInt(age)) @@
                ("Audit Rating" :> rating) @@
                ("Open Issues" :> RInt(num_open_issues)) @@
                ("High Severity Issues" :> RInt(num_high_severity)) @@
                ("Repair Log" :> building_repairs)])

app_calculate_people_score(building, residents) ==
    IF SeriesEmpty(building) THEN Ok([score |-> RInt(0), details |-> EmptyDict])
    ELSE
    LET building_residents == Filter(residents, "building_id", building["building_id"].str)
    IN  IF DfEmpty(building_residents) THEN Ok([score |-> RInt(0), details |-> EmptyDict])
        ELSE IF building["total_flats"].num = 0 THEN Raise("ZeroDivisionError")
        ELSE
        LET total_flats == building["total_flats"].num
            payment_punctuality ==
                RMul(Rat(Len(Filter(building_residents, "maintenance_due_amount", 0)),
                         total_flats), RInt(100))
            owner_ratio ==
                RMul(Rat(Len(Filter(building_residents, "owner_or_tenant", "Owner")),
                         total_flats), RInt(100))
            avg_income_score == MeanMapped(building_residents, "avg_monthly_income", INCOME_SCORE_MAP)
            avg_edu_score == MeanMapped(building_residents, "education_level", EDUCATION_SCORE_MAP)
            socio_economic_score ==
                RAdd(RMul(avg_income_score, Rat(3, 5)), RMul(avg_edu_score, Rat(2, 5)))
            people_score ==
                RAdd(RAdd(RMul(payment_punctuality, Rat(1, 2)), RMul(owner_ratio, Rat(1, 5))),
                     RMul(socio_economic_score, Rat(3, 10)))
        IN  Ok([score |-> Clamp(people_score),
                details |->
                    ("Payment Punctuality (%)" :> payment_punctuality) @@
                    ("Owner-Tenant Ratio (%)" :> owner_ratio) @@
                    ("Avg. Income Score" :> avg_income_score) @@
                    ("Avg. Education Score" :> avg_edu_score) @@
                    ("Resident Details" :> building_residents)])

\* if condition_met: the truth value of a raw cell
Truthy(cell) ==
    IF IsStr(cell) THEN cell.str # "" ELSE PyBool(cell)

\* Lines 187-216: the body of the try for one rule
app_EvalRule(building, rule, financial_details) ==
    LET rule_id == rule["id"]
    IN  CASE rule_id = "FIRE_SAFETY" ->
                LET last_inspection == to_datetime(building["last_fire_safety"])
                IN  IF last_inspection = NaT THEN Raise("Unknown datetime string format")
                    ELSE Ok([met |-> DaysSince(last_inspection) <= 365,
                             details |-> "Last inspection"])
          [] rule_id = "STRUCT_AUDIT" ->
                LET last_inspection == to_datetime(building["last_annual_inspection"])
                IN  IF last_inspection = NaT THEN Raise("Unknown datetime string format")
                    ELSE LET age == CURRENT_YEAR - building["year_built"].num
                             required_days == IF age > 15 THEN 365 ELSE 365 * 3
                             days_since == DaysSince(last_inspection)
                         IN  Ok([met |-> days_since <= required_days, details |-> "Last audit"])
          [] rule_id = "RESERVE_FUND" ->
                LET reserve_ratio == Get(financial_details, "Reserve Ratio", RInt(0))
                IN  IF "parameters" \notin DOMAIN rule THEN Raise("'parameters'")
                    ELSE IF "min_ratio" \notin DOMAIN rule["parameters"] THEN Raise("'min_ratio'")
                    ELSE Ok([met |-> RGe(reserve_ratio, rule["parameters"]["min_ratio"]),
                             details |-> "Current Ratio"])
          [] rule_id = "WASTE_SEGREGATION" ->
                Ok([met |-> Truthy(Get(building, "waste_segregation_implemented", Bool(FALSE))),
                    details |-> "Based on society records."])
          [] rule_id = "SEWAGE_SYSTEM" ->
                Ok([met |-> Truthy(Get(building, "sewage_system_approved", Bool(FALSE))),
                    details |-> "Based on NMMC approval records."])
          [] OTHER -> Ok([met |-> FALSE, details |-> ""])

RECURSIVE app_RuleLoop(_, _, _, _)
app_RuleLoop(building, rule_list, financial_details, acc) ==
    IF rule_list = <<>> THEN Ok(acc)
    ELSE LET rule == Head(rule_list)
             header == RuleHeader(rule)
         IN  IF ~header.ok THEN header
             ELSE LET step == app_EvalRule(building, rule, financial_details)
                      out == Outcome(header.v, step)
                  IN  app_RuleLoop(building, Tail(rule_list), financial_details,
                                   [pass_count |-> acc.pass_count
                                                    + (IF out.Status = "Pass" THEN 1 ELSE 0),
                                    results |-> Append(acc.results, out)])

\* Lines 172-228; line 227 divides by len(rules['rules']) unguarded
app_check_nmmc_compliance(building, rules, financial_details) ==
    IF Falsy(rules) THEN Ok([score |-> RInt(0), results |-> <<>>])
    ELSE LET loop == app_RuleLoop(building, rules["rules"], financial_details,
                                  [pass_count |-> 0, results |-> <<>>])
         IN  IF ~loop.ok THEN loop
             ELSE IF rules["rules"] = <<>> THEN Raise("ZeroDivisionError")
             ELSE Ok([score |-> RMul(Rat(loop.v.pass_count, Len(rules["rules"])), RInt(100)),
                      results |-> loop.v.results])

app_calculate_bhi(financial_score, structural_score, people_score) ==
    Clamp(RAdd(RAdd(RMul(financial_score, Rat(1, 2)), RMul(structural_score, Rat(3, 10))),
               RMul(people_score, Rat(1, 5))))

app_get_bhi_color(bhi) ==
    IF RGe(bhi, RInt(80)) THEN "green"
    ELSE IF RGe(bhi, RInt(50)) THEN "orange"
    ELSE "red"

\* Lines 275-300: the body of the loop for one building: Ok(row) or Raise(e)
ScoreBuilding(building, transactions, residents, repairs, rules) ==
    LET fin == app_calculate_financial_health(building, transactions, residents)
    IN  IF ~fin.ok THEN fin
        ELSE
        LET str == app_calculate_structural_health(building, repairs)
        IN  IF ~str.ok THEN str
            ELSE
            LET ppl == app_calculate_people_score(building, residents)
            IN  IF ~ppl.ok THEN ppl
                ELSE
                LET comp == app_check_nmmc_compliance(building, rules, fin.v.details)
                IN  IF ~comp.ok THEN comp
                    ELSE
                    LET bhi_score == app_calculate_bhi(fin.v.score, str.v.score, ppl.v.score)
                    IN  Ok(("building_id" :> building["building_id"].str) @@
                           ("building_name" :> building["building_name"].str) @@
                           ("BHI" :> bhi_score) @@
                           ("Financial Score" :> fin.v.score) @@
                           ("Structural Score" :> str.v.score) @@
                           ("People Score" :> ppl.v.score) @@
                           ("Compliance Score" :> comp.v.score) @@
                           ("Latitude" :> building["latitude"].num) @@
                           ("Longitude" :> building["longitude"].num) @@
                           ("BHI Color" :> app_get_bhi_color(bhi_score)) @@
                           ("fin_details" :> fin.v.details) @@
                           ("str_details" :> str.v.details) @@
                           ("ppl_details" :> ppl.v.details) @@
                           ("comp_details" :> comp.v.results))

\* Line 303: sort_values(by='BHI', ascending=False): the orders of the rows in
\* which the BHI does not increase (the default sort kind promises no order
\* among equal keys)
SortedByBhi(rows) ==
    LET n == Len(rows)
        perms == {f \in [1..n -> 1..n] : \A i, j \in 1..n : i # j => f[i] # f[j]}
    IN  {[i \in 1..n |-> rows[f[i]]] : f \in
            {g \in perms : \A i \in 1..(n - 1) : RGe(rows[g[i]]["BHI"], rows[g[i + 1]]["BHI"])}}

-----------------------------------------------------------------------------
(* app.py, main (lines 245-303): the batch *)

\* The rows of the loaded tables
BatchBuildingRows ==
    {MkRow(EmptyDict),
     MkRow([building_id |-> Str("B2"), building_name |-> Str("Annex"),
            monthly_maintenance_expected |-> Num(0)]),
     MkRow([building_id |-> Str("B3"), building_name |-> Str("Court"),
            monthly_maintenance_collected |-> Num(50),
            structural_audit_rating |-> Str("C")]),
     MkRow([building_id |-> Str("B4"), building_name |-> Str("Twin")])}

BatchResidentRows ==
    {Resident("B1", 0, "Owner", "High", "Graduate"),
     Resident("B3", 500, "Tenant", "Low", "High School")}

BatchRuleDocs ==
    {None, [rules |-> <<Rule("FIRE_SAFETY", "Fire audit"), ReserveRule(Rat(4, 5))>>]}

InitBatch ==
    /\ Clock
    /\ call = Idle
    /\ ret = NoRet
    /\ buildings_df = <<>>
    /\ residents_df = <<>>
    /\ transactions_df = <<>>
    /\ repairs_df = <<>>
    /\ nmmc_rules = None
    /\ pc = "start"
    /\ idx = 0
    /\ processed_data = <<>>
    /\ main_df = <<>>
    /\ buildings_csv = <<>>

\* Lines 262-270: the tables and the rule document are loaded; the batch stops
\* when one of them is empty or missing
LoadData ==
    /\ pc = "start"
    /\ \E b \in SeqsUpTo(BatchBuildingRows, MaxBuildings),
          r \in SeqsUpTo(BatchResidentRows, MaxResidents),
          t \in SeqsUpTo({Transaction("B1", "Expense", "Utilities", 100)}, MaxTransactions),
          p \in SeqsUpTo({Repair("B1", "Open", "High")}, MaxRepairs)
                   \cup {<<Repair("B3", "Open", "High")>>},
          rules \in BatchRuleDocs :
          /\ buildings_df' = b
          /\ residents_df' = r
          /\ transactions_df' = t
          /\ repairs_df' = p
          /\ nmmc_rules' = rules
          /\ IF DfEmpty(b) \/ DfEmpty(r) \/ DfEmpty(t) \/ DfEmpty(p) \/ Falsy(rules)
             THEN pc' = "halted" /\ idx' = 0
             ELSE pc' = "loop" /\ idx' = 1
    /\ UNCHANGED <<clockVars, callVars, buildings_csv, processed_data, main_df>>

\* Lines 274-300: one turn of the loop; an exception leaves main
ProcessBuilding ==
    /\ pc = "loop"
    /\ idx <= Len(buildings_df)
    /\ LET row == ScoreBuilding(buildings_df[idx], transactions_df, residents_df,
                                repairs_df, nmmc_rules)
       IN  IF row.ok
           THEN /\ processed_data' = Append(processed_data, row.v)
                /\ idx' = idx + 1
                /\ pc' = "loop"
           ELSE /\ pc' = "raised"
                /\ UNCHANGED <<processed_data, idx>>
    /\ UNCHANGED <<clockVars, callVars, buildings_csv, buildings_df, residents_df, transactions_df,
                   repairs_df, nmmc_rules, main_df>>

\* Lines 302-303: the result table, sorted by BHI
BuildTable ==
    /\ pc = "loop"
    /\ idx > Len(buildings_df)
    /\ main_df' \in SortedByBhi(processed_data)
    /\ pc' = "done"
    /\ UNCHANGED <<clockVars, callVars, buildings_csv, buildings_df, residents_df, transactions_df,
                   repairs_df, nmmc_rules, idx, processed_data>>

NextBatch ==
    \/ LoadData
    \/ ProcessBuilding
    \/ BuildTable

SpecBatch == InitBatch /\ [][NextBatch]_vars

-----------------------------------------------------------------------------
(* The same call made at two moments.  config.py line 7 reads the year when *)
(* the module is imported and compliance.py line 26 reads the date at each  *)
(* call; neither is a parameter of the functions.                           *)

\* The calls that are made twice: the arguments, fixed at the first run
RunInputs ==
    {[fn |-> "calculate_financial_health",
      building |-> MkRow([year_built |-> y, current_fund |-> Num(f)])] :
        y \in {Num(CURRENT_YEAR - 5), Num(CURRENT_YEAR), NaN}, f \in {3000, 9000}}
    \cup {[fn |-> "calculate_structural_health", building |-> MkRow([year_built |-> y])] :
            y \in {Num(CURRENT_YEAR - 5), Num(CURRENT_YEAR - 70), NaN}}
    \cup {[fn |-> "calculate_people_score", building |-> MkRow([total_flats |-> Num(f)])] :
            f \in {1, 2}}
    \cup {[fn |-> "check_nmmc_compliance",
           building |-> MkRow([last_fire_safety |-> DateStr(today - d),
                               last_annual_inspection |-> DateStr(today - d)]),
           rules |-> [rules |-> <<rule>>],
           financial_details |-> calculate_financial_health(BaseBuilding, <<>>, <<>>).details] :
            d \in {30, 364, 365}, rule \in {Rule("FIRE_SAFETY", "Fire audit"),
                                            Rule("STRUCT_AUDIT", "Structural audit"),
                                            ReserveRule(Rat(4, 5)),
                                            Rule("WASTE_SEGREGATION", "Waste")}}

\* The result of a call at the present moment
RunOf(c) ==
    CASE c.fn = "calculate_financial_health" ->
            calculate_financial_health(c.building, <<>>, <<>>)
      [] c.fn = "calculate_structural_health" -> calculate_structural_health(c.building, <<>>)
      [] c.fn = "calculate_people_score" ->
            calculate_people_score(c.building,
                                   <<Resident("B1", 0, "Owner", "High", "Graduate")>>)
      [] OTHER -> check_nmmc_compliance(c.building, c.rules, c.financial_details)

FirstRun ==
    /\ call = Idle
    /\ \E c \in RunInputs :
          call' = [fn |-> "rerun", input |-> c, first |-> RunOf(c), ticks |-> 0]
    /\ ret' = NoRet
    /\ UNCHANGED <<clockVars, batchVars>>

\* Time passes between the two runs: a day or a year, the calendar year
\* changing or not with the day, always with the year
Tick ==
    /\ call.fn = "rerun"
    /\ ret = NoRet
    /\ call.ticks < MaxTicks
    /\ \E days \in {1, 365}, years \in {0, 1} :
          /\ days = 365 => years = 1
          /\ today' = today + days
          /\ CURRENT_YEAR' = CURRENT_YEAR + years
    /\ call' = [call EXCEPT !.ticks = @ + 1]
    /\ UNCHANGED <<ret, batchVars>>

SecondRun ==
    /\ call.fn = "rerun"
    /\ ret = NoRet
    /\ ret' = [second |-> RunOf(call.input)]
    /\ UNCHANGED <<call, clockVars, batchVars>>

NextClock ==
    \/ FirstRun
    \/ Tick
    \/ SecondRun

SpecClock == Init /\ [][NextClock]_vars

-----------------------------------------------------------------------------
(* The tables across the scoring of buildings, taken in any order:            *)
(* calculations.py 182-211, feature_engineering.py 25-107, app.py 133-151     *)

FrameBuildingTables ==
    LET b1 == MkRow(EmptyDict)
        b2 == MkRow([building_id |-> Str("B2"), total_flats |-> Num(1)])
    IN  {<<b1, b2>>, <<b2, b1>>}

FrameResidentRows ==
    {Resident("B1", Num(0), "Owner", "High", "Graduate"),
     Resident("B1", Num(500), "Tenant", "Low", "High School"),
     Resident("B2", Num(0), "Owner", "Low", "High School")}

\* The residents table as the scoring primitives compare its dues column
DuesRead(df) == [i \in DOMAIN df |-> [df[i] EXCEPT !.maintenance_due_amount = @.num]]

\* rows[col] = rows[src].map(map).fillna(0)
SetMapped(rows, col, src, map) ==
    [i \in DOMAIN rows |->
        (col :> (IF rows[i][src] \in DOMAIN map THEN map[rows[i][src]] ELSE 0)) @@ rows[i]]

\* The table as it would be if the filtered rows shared their storage with it
AssignToSlice_View(df, building_id) ==
    LET scored == SetMapped(SetMapped(df, "income_score", "avg_monthly_income",
                                      INCOME_SCORE_MAP),
                            "edu_score", "education_level", EDUCATION_SCORE_MAP)
    IN  [i \in DOMAIN df |-> IF df[i].building_id = building_id THEN scored[i] ELSE df[i]]

\* The residents table after the columns income_score and edu_score are set on
\* the rows filtered for a building: df[df['building_id'] == id] (and .copy())
\* builds a table of its own, so the columns are set there and df keeps its rows
AssignToSlice(df, building_id) ==
    LET building_residents == RowsOf(df, building_id)
        scored == SetMapped(SetMapped(building_residents, "income_score",
                                      "avg_monthly_income", INCOME_SCORE_MAP),
                            "edu_score", "education_level", EDUCATION_SCORE_MAP)
    IN  df

InitFrame ==
    /\ Clock
    /\ call = Idle
    /\ ret = NoRet
    /\ buildings_df \in FrameBuildingTables
    /\ residents_df \in SeqsUpTo(FrameResidentRows, MaxResidents)
    /\ transactions_df \in {<<>>, <<Transaction("B1", "Expense", "Utilities", Num(100))>>}
    /\ repairs_df = <<[building_id |-> "B2", status |-> "Open", severity |-> "High",
                       estimated_cost |-> Num(40)]>>
    /\ nmmc_rules = None
    /\ pc = "frame"
    /\ idx = 0
    /\ processed_data = <<>>
    /\ main_df = <<>>
    /\ buildings_csv = <<>>

\* A function is applied to a building not yet given to it, in any order
Pending(fn, i) == i \in 1..Len(buildings_df) /\ <<fn, i>> \notin DOMAIN processed_data

FramePeople ==
    /\ pc = "frame"
    /\ \E i \in 1..Len(buildings_df) :
          /\ Pending("calculate_people_score", i)
          /\ processed_data' = processed_data @@
                (<<"calculate_people_score", i>> :>
                    calculate_people_score(buildings_df[i], DuesRead(residents_df)))
          /\ residents_df' = AssignToSlice(residents_df, buildings_df[i]["building_id"].str)
    /\ UNCHANGED <<clockVars, callVars, buildings_csv, buildings_df, transactions_df, repairs_df,
                   nmmc_rules, pc, idx, main_df>>

FrameAppPeople ==
    /\ pc = "frame"
    /\ \E i \in 1..Len(buildings_df) :
          /\ Pending("app_calculate_people_score", i)
          /\ processed_data' = processed_data @@
                (<<"app_calculate_people_score", i>> :>
                    app_calculate_people_score(buildings_df[i], DuesRead(residents_df)))
          /\ residents_df' = AssignToSlice(residents_df, buildings_df[i]["building_id"].str)
    /\ UNCHANGED <<clockVars, callVars, buildings_csv, buildings_df, transactions_df, repairs_df,
                   nmmc_rules, pc, idx, main_df>>

FrameFeatures ==
    /\ pc = "frame"
    /\ \E i \in 1..Len(buildings_df) :
          /\ Pending("create_ml_features", i)
          /\ processed_data' = processed_data @@
                (<<"create_ml_features", i>> :>
                    BuildingFeatures(buildings_df[i], residents_df, transactions_df,
                                     repairs_df))
    /\ UNCHANGED <<clockVars, callVars, buildings_csv, buildings_df, residents_df, transactions_df,
                   repairs_df, nmmc_rules, pc, idx, main_df>>

NextFrame ==
    \/ FramePeople
    \/ FrameAppPeople
    \/ FrameFeatures

SpecFrame == InitFrame /\ [][NextFrame]_vars

-----------------------------------------------------------------------------
(* views/add_building.py: the add-building form.  A text is a sequence of   *)
(* characters.  buildings_df is the table load_csv returned to the          *)
(* dashboard: data_loader.py line 9 caches it, so it is read from the file  *)
(* again only after the cache is cleared.  The file has its header line.    *)

Digits == <<"0", "1", "2", "3", "4", "5", "6", "7", "8", "9">>
IsDigit(c) == \E d \in 1..10 : Digits[d] = c
DigitValue(c) == (CHOOSE d \in 1..10 : Digits[d] = c) - 1

\* int(text): Ok(number), or Raise for a text that is not all digits
RECURSIVE DecimalValue(_)
DecimalValue(text) ==
    IF text = <<>> THEN 0
    ELSE DecimalValue(SubSeq(text, 1, Len(text) - 1)) * 10 + DigitValue(text[Len(text)])

int(text) ==
    IF text # <<>> /\ \A i \in 1..Len(text) : IsDigit(text[i])
    THEN Ok(DecimalValue(text))
    ELSE Raise("ValueError")

\* f'{n:03d}'
RECURSIVE DecimalText(_)
DecimalText(n) ==
    IF n < 10 THEN <<Digits[n + 1]>>
    ELSE DecimalText(n \div 10) \o <<Digits[(n % 10) + 1]>>

RECURSIVE ZeroPad3(_)
ZeroPad3(text) == IF Len(text) < 3 THEN ZeroPad3(<<"0">> \o text) ELSE text

\* text.strip()
RECURSIVE strip(_)
strip(text) ==
    IF text = <<>> THEN text
    ELSE IF Head(text) = " " THEN strip(Tail(text))
    ELSE IF text[Len(text)] = " " THEN strip(SubSeq(text, 1, Len(text) - 1))
    ELSE text

\* Lines 47-56: the greatest number read from the IDs, 0 when none can be read
RECURSIVE MaxIdNumber(_)
MaxIdNumber(existing_ids) ==
    IF existing_ids = <<>> THEN 0
    ELSE LET num == int(Tail(Head(existing_ids)))
             rest == MaxIdNumber(Tail(existing_ids))
         IN  IF num.ok /\ num.v > rest THEN num.v ELSE rest

\* Lines 34-61
generate_building_id(existing_buildings_df) ==
    IF DfEmpty(existing_buildings_df) THEN <<"B", "0", "0", "1">>
    ELSE LET existing_ids == [i \in DOMAIN existing_buildings_df |->
                                 existing_buildings_df[i].building_id]
         IN  <<"B">> \o ZeroPad3(DecimalText(MaxIdNumber(existing_ids) + 1))

\* Lines 10-31: the file with the new row after its rows
save_building_to_csv(building_data, file) == Append(file, building_data)

\* The buildings files the dashboard starts from: their IDs differ
InitialFiles ==
    {<<>>,
     <<[building_id |-> <<"B", "0", "0", "1">>, building_name |-> <<"T">>]>>,
     <<[building_id |-> <<"B", "0", "0", "9">>, building_name |-> <<"T">>],
       [building_id |-> <<"B", "L", "D">>, building_name |-> <<"A">>]>>}

InitForm ==
    /\ Clock
    /\ call = Idle
    /\ ret = NoRet
    /\ buildings_csv \in InitialFiles
    /\ buildings_df = buildings_csv
    /\ residents_df = <<>>
    /\ transactions_df = <<>>
    /\ repairs_df = <<>>
    /\ nmmc_rules = None
    /\ pc = "dashboard"
    /\ idx = 0
    /\ processed_data = <<>>
    /\ main_df = <<>>

\* Lines 64-243, render_add_building_tab with the form submitted: the ID is
\* generated from buildings_df (line 75), the name and the expected amount are
\* validated (196-202), the ID is looked up in buildings_df (205) and the row
\* is appended to the file (226)
SubmitBuilding ==
    /\ pc = "dashboard"
    /\ Len(buildings_csv) < MaxFileRows
    /\ \E building_name \in {<<"T">>, <<" ", "A">>, <<" ">>, <<>>}, monthly_expected \in {0, 100} :
          LET building_id == generate_building_id(buildings_df)
              building_data == [building_id |-> building_id,
                                building_name |-> strip(building_name)]
          IN  /\ call' = [fn |-> "render_add_building_tab", building_name |-> building_name,
                          monthly_expected |-> monthly_expected]
              /\ IF building_name = <<>> \/ strip(building_name) = <<>>
                 THEN ret' = [error |-> "Building Name is required"]
                      /\ UNCHANGED buildings_csv
                 ELSE IF monthly_expected = 0
                 THEN ret' = [error |-> "Monthly Maintenance Expected must be greater than 0"]
                      /\ UNCHANGED buildings_csv
                 ELSE IF \E i \in 1..Len(buildings_df) :
                            buildings_df[i].building_id = building_id
                 THEN ret' = [error |-> "Building ID already exists"]
                      /\ UNCHANGED buildings_csv
                 ELSE ret' = [success |-> building_id]
                      /\ buildings_csv' = save_building_to_csv(building_data, buildings_csv)
    /\ UNCHANGED <<clockVars, buildings_df, residents_df, transactions_df, repairs_df,
                   nmmc_rules, pc, idx, processed_data, main_df>>

\* The data refresh: st.cache_data.clear() and a rerun, in which load_csv
\* reads the file again
RefreshData ==
    /\ pc = "dashboard"
    /\ buildings_df # buildings_csv
    /\ buildings_df' = buildings_csv
    /\ UNCHANGED <<clockVars, callVars, buildings_csv, residents_df, transactions_df,
                   repairs_df, nmmc_rules, pc, idx, processed_data, main_df>>

NextForm ==
    \/ SubmitBuilding
    \/ RefreshData

SpecForm == InitForm /\ [][NextForm]_vars

-----------------------------------------------------------------------------
(* Claims *)

IsCompliance == call.fn = "check_nmmc_compliance"

\* The call returned a score
Returned == "score" \in DOMAIN ret

\* The rule list a compliance call was made on
RuleList == IF Falsy(call.rules) THEN <<>> ELSE call.rules["rules"]

\* Every entry of the rule list carries an id and a description
RuleListWellFormed ==
    \A i \in 1..Len(RuleList) : {"id", "description"} \subseteq DOMAIN RuleList[i]

\* The positions of the rule list holding the rule id
RulesWithId(id) == {i \in 1..Len(RuleList) : Get(RuleList[i], "id", "") = id}

\* C1: the financial, structural and people scores, the composite index and the
\* compliance score returned by a call all lie in [0,100]
C1_ScoresInRange ==
    /\ (/\ call.fn \in {"calculate_financial_health", "calculate_structural_health",
                        "calculate_people_score", "calculate_bhi"}
        /\ Returned)
          => InRange0_100(ret.score)
    /\ (IsCompliance /\ ~ret.raised) => InRange0_100(ret.score)

\* A financial call whose collection rate is above 100 and whose score is capped at 100
C1_Witness ==
    /\ call.fn = "calculate_financial_health"
    /\ Returned
    /\ ~SeriesEmpty(call.building)
    /\ RGt(ret.details["Collection Rate (%)"], RInt(100))
    /\ ret.score = RInt(100)

\* C2: calculate_bhi returns 0.5*financial + 0.3*structural + 0.2*people clamped
\* to [0,100]; (90, 70, 60) gives 78
C2_BhiFormula ==
    call.fn = "calculate_bhi" =>
        LET f == call.financial_score
            s == call.structural_score
            p == call.people_score
            \* (5f + 3s + 2p) / 10
            raw == Rat(5 * f.n * s.d * p.d + 3 * s.n * f.d * p.d + 2 * p.n * f.d * s.d,
                       10 * f.d * s.d * p.d)
            expected == IF RLt(raw, RInt(0)) THEN RInt(0)
                        ELSE IF RGt(raw, RInt(100)) THEN RInt(100) ELSE raw
        IN  /\ REq(ret.score, expected)
            /\ (f = RInt(90) /\ s = RInt(70) /\ p = RInt(60)) => ret.score = RInt(78)

C2_Witness ==
    /\ call.fn = "calculate_bhi"
    /\ call.financial_score = RInt(90)
    /\ call.structural_score = RInt(70)
    /\ call.people_score = RInt(60)
    /\ ret.score = RInt(78)

\* C3: the color is green iff bhi >= 80, orange iff 50 <= bhi < 80, red iff
\* bhi < 50, and the trainer's risk label is Low, Medium, High exactly when the
\* color is green, orange, red
C3_TierMapping ==
    call.fn = "tier" =>
        LET b == call.bhi
        IN  /\ ret.color = "green" <=> RGe(b, RInt(80))
            /\ ret.color = "orange" <=> (RGe(b, RInt(50)) /\ RLt(b, RInt(80)))
            /\ ret.color = "red" <=> RLt(b, RInt(50))
            /\ ret.risk = "Low" <=> ret.color = "green"
            /\ ret.risk = "Medium" <=> ret.color = "orange"
            /\ ret.risk = "High" <=> ret.color = "red"

C3_Witness ==
    /\ call.fn = "tier"
    /\ call.bhi = RInt(50)
    /\ ret.color = "orange"
    /\ ret.risk = "Medium"

\* C4: on a rule list whose entries carry id and description, the call returns
\* one outcome per rule, in rule-list order, each Pass, Fail or Error, and the
\* score 100 * passes / rules; no rules give score 0 and an empty list
C4_OneOutcomePerRule ==
    (IsCompliance /\ RuleListWellFormed) =>
        /\ ~ret.raised
        /\ Len(ret.results) = Len(RuleList)
        /\ \A i \in 1..Len(RuleList) :
              /\ ret.results[i].Rule = RuleList[i]["description"]
              /\ ret.results[i].Status \in {"Pass", "Fail", "Error"}
        /\ LET passes == Cardinality({i \in 1..Len(ret.results) :
                                        ret.results[i].Status = "Pass"})
           IN  IF Len(RuleList) = 0
               THEN ret.score = RInt(0) /\ ret.results = <<>>
               ELSE REq(ret.score, Rat(100 * passes, Len(RuleList)))

\* Two rules, the first passes and the second is an Error: the score is 50
C4_Witness ==
    /\ IsCompliance
    /\ Len(RuleList) = 2
    /\ ~ret.raised
    /\ ret.results[1].Status = "Pass"
    /\ ret.results[2].Status = "Error"
    /\ ret.score = RInt(50)

\* The rule list without its i-th entry
RemoveAt(l, i) == SubSeq(l, 1, i - 1) \o SubSeq(l, i + 1, Len(l))

\* The evaluation of the i-th rule raises: reading its id or description, or
\* inside the rule's own logic
RuleRaises(i) ==
    \/ ~RuleHeader(RuleList[i]).ok
    \/ ~EvalRule(call.building, RuleList[i], call.financial_details).ok

\* C5: a rule whose evaluation raises gets an Error outcome, the call does not
\* raise, and every other rule gets the outcome it gets without the bad rule
C5_BadRuleIsolated ==
    IsCompliance =>
        \A i \in 1..Len(RuleList) :
            RuleRaises(i) =>
                /\ ~ret.raised
                /\ ret.results[i].Status = "Error"
                /\ LET without ==
                           check_nmmc_compliance(call.building,
                                                 [rules |-> RemoveAt(RuleList, i)],
                                                 call.financial_details)
                   IN  without.raised \/ RemoveAt(ret.results, i) = without.results

\* C8: the FIRE_SAFETY rule passes iff the date is present, parseable and
\* 0 <= days <= 365; a missing or unparseable date gives Fail with a detail
C8_FireSafety ==
    (IsCompliance /\ ~ret.raised) =>
        \A i \in RulesWithId("FIRE_SAFETY") :
            LET cell == Get(call.building, "last_fire_safety", ABSENT)
                out == ret.results[i]
            IN  /\ out.Status = "Pass" <=>
                      (IsDate(cell) /\ 0 <= today - cell.date /\ today - cell.date <= 365)
                /\ ~IsDate(cell) => (out.Status = "Fail" /\ out.Details # "")
                /\ out.Status # "Error"

\* An inspection exactly 365 days ago passes
C8_Witness ==
    /\ IsCompliance
    /\ ~ret.raised
    /\ \E i \in RulesWithId("FIRE_SAFETY") :
          /\ call.building["last_fire_safety"] = DateStr(today - 365)
          /\ ret.results[i].Status = "Pass"

\* The year the STRUCT_AUDIT rule works with is a number or is missing
AuditYearUsable ==
    LET cell == Get(call.building, "year_built", ABSENT)
    IN  cell = ABSENT \/ isna(cell) \/ IsNum(cell)

\* C9: the STRUCT_AUDIT rule passes iff 0 <= days <= R, R = 365 when the age is
\* above 15 and 1095 otherwise; a missing or unparseable date gives Fail
C9_StructAudit ==
    (IsCompliance /\ ~ret.raised) =>
        \A i \in RulesWithId("STRUCT_AUDIT") :
            LET cell == Get(call.building, "last_annual_inspection", ABSENT)
                year == Get(call.building, "year_built", ABSENT)
                out == ret.results[i]
            IN  /\ ~IsDate(cell) => out.Status = "Fail"
                /\ (IsDate(cell) /\ AuditYearUsable) =>
                      LET age == IF IsNum(year) THEN CURRENT_YEAR - year.num ELSE 0
                          R == IF age > 15 THEN 365 ELSE 1095
                          d == today - cell.date
                      IN  out.Status = "Pass" <=> (0 <= d /\ d <= R)

\* Age exactly 15 and an inspection 1095 days ago: Pass
C9_Witness ==
    /\ IsCompliance
    /\ ~ret.raised
    /\ \E i \in RulesWithId("STRUCT_AUDIT") :
          /\ call.building["year_built"] = Num(CURRENT_YEAR - 15)
          /\ call.building["last_annual_inspection"] = DateStr(today - 1095)
          /\ ret.results[i].Status = "Pass"

\* C10: the RESERVE_FUND rule passes iff the Reserve Ratio of the financial
\* details is at least min_ratio; 1.0 against 0.8 passes, 0.5 fails
C10_ReserveFund ==
    (IsCompliance /\ ~ret.raised) =>
        \A i \in RulesWithId("RESERVE_FUND") :
            ("parameters" \in DOMAIN RuleList[i]) =>
                LET min_ratio == RuleList[i]["parameters"]["min_ratio"]
                    ratio == IF "Reserve Ratio" \in DOMAIN call.financial_details
                             THEN call.financial_details["Reserve Ratio"]
                             ELSE RInt(0)
                    out == ret.results[i]
                IN  /\ out.Status \in {"Pass", "Fail"}
                    /\ out.Status = "Pass" <=> ratio.n * min_ratio.d >= min_ratio.n * ratio.d
                    /\ (ratio = RInt(1) /\ min_ratio = Rat(4, 5)) => out.Status = "Pass"
                    /\ (ratio = Rat(1, 2) /\ min_ratio = Rat(4, 5)) => out.Status = "Fail"

\* The ratio computed by calculate_financial_health for the building is exactly
\* the target 0.8 and the rule passes
C10_Witness ==
    /\ IsCompliance
    /\ ~ret.raised
    /\ "Reserve Ratio" \in DOMAIN call.financial_details
    /\ call.financial_details["Reserve Ratio"] = Rat(4, 5)
    /\ \E i \in RulesWithId("RESERVE_FUND") :
          /\ "parameters" \in DOMAIN RuleList[i]
          /\ RuleList[i]["parameters"]["min_ratio"] = Rat(4, 5)
          /\ ret.results[i].Status = "Pass"
    /\ "year_built" \in DOMAIN call.building
    /\ IsNum(call.building["year_built"])
    /\ call.financial_details =
          calculate_financial_health(call.building, <<>>, <<>>).details

\* The scoring of the i-th building of the table raises
BuildingRaises(i) ==
    ~ScoreBuilding(buildings_df[i], transactions_df, residents_df, repairs_df, nmmc_rules).ok

\* C6: an exception raised while scoring one building does not leave the batch:
\* the building is skipped and every other building gets its result row
C6_BadBuildingSkipped ==
    /\ pc # "raised"
    /\ pc = "done" =>
          \A i \in 1..Len(buildings_df) :
              ~BuildingRaises(i) =>
                  \E k \in 1..Len(main_df) :
                      main_df[k]["building_id"] = buildings_df[i]["building_id"].str

\* C7: the batch halts exactly when the buildings table is empty or no rules
\* are loaded
C7_HaltsOnlyWithoutBuildingsOrRules ==
    pc # "start" =>
        (pc = "halted" <=> (DfEmpty(buildings_df) \/ Falsy(nmmc_rules)))

\* The flag a WASTE_SEGREGATION or SEWAGE_SYSTEM rule reads, False when the
\* building has no such column
FlagOf(rule_id) ==
    Get(call.building,
        IF rule_id = "WASTE_SEGREGATION" THEN "waste_segregation_implemented"
        ELSE "sewage_system_approved",
        Bool(FALSE))

\* The flag is boolean true, or text equal ignoring case to true, 1 or yes
FlagIsTrue(flag) ==
    \/ flag = Bool(TRUE)
    \/ IsStr(flag) /\ flag.str \in {"true", "True", "TRUE", "1", "yes", "Yes", "YES"}

\* C11: the WASTE_SEGREGATION and SEWAGE_SYSTEM rules pass iff the flag of the
\* building is boolean true or one of the texts true, 1, yes in any case; every
\* other value gives Fail
C11_FlagRules ==
    (IsCompliance /\ ~ret.raised) =>
        \A rule_id \in {"WASTE_SEGREGATION", "SEWAGE_SYSTEM"} :
            \A i \in RulesWithId(rule_id) :
                /\ ret.results[i].Status \in {"Pass", "Fail"}
                /\ ret.results[i].Status = "Pass" <=> FlagIsTrue(FlagOf(rule_id))

\* A call of calculate_financial_health on a building that has columns
IsFinancial ==
    call.fn = "calculate_financial_health" /\ Returned /\ ~SeriesEmpty(call.building)

\* The number in a column of the building the call was made on: a missing cell
\* or column counts as dflt
CellNum(col, dflt) ==
    LET cell == Get(call.building, col, NaN)
    IN  IF IsNum(cell) THEN cell.num ELSE dflt

\* C12: the collection rate reported is 100 * collected / expected when
\* expected > 0 and 0 whenever expected <= 0 or expected is missing
C12_CollectionRate ==
    IsFinancial =>
        LET expected == CellNum("monthly_maintenance_expected", 0)
            collected == CellNum("monthly_maintenance_collected", 0)
            rate == ret.details["Collection Rate (%)"]
        IN  IF expected > 0 THEN rate = Rat(100 * collected, expected)
            ELSE rate = RInt(0)

\* The year_built and total_flats cells of the call are numbers
ReserveInputsNumeric ==
    /\ IsNum(Get(call.building, "year_built", NaN))
    /\ IsNum(Get(call.building, "total_flats", NaN))

\* C13: the reserve ratio reported is (current_fund + reserve_fund) /
\* (total_flats * 500 * max(1, current year - year_built)) when total_flats > 0
\* and year_built > 0, and 0 when total_flats <= 0 or year_built <= 0; the
\* financial score uses min(100, 100 * ratio) as the reserve sub-score
C13_ReserveRatio ==
    (IsFinancial /\ ReserveInputsNumeric) =>
        LET total_flats == CellNum("total_flats", 0)
            year_built == CellNum("year_built", 0)
            funds == CellNum("current_fund", 0) + CellNum("reserve_fund", 0)
            age == CURRENT_YEAR - year_built
            ratio == ret.details["Reserve Ratio"]
            sub_score == IF RLt(RMul(ratio, RInt(100)), RInt(100))
                         THEN RMul(ratio, RInt(100)) ELSE RInt(100)
            blend == RAdd(RAdd(RMul(ret.details["Collection Rate (%)"], Rat(2, 5)),
                               RMul(sub_score, Rat(2, 5))),
                          RMul(ret.details["Payment Punctuality (%)"], Rat(1, 5)))
        IN  /\ IF total_flats > 0 /\ year_built > 0
               THEN ratio = Rat(funds, total_flats * 500 * (IF age > 1 THEN age ELSE 1))
               ELSE ratio = RInt(0)
            /\ ret.score = (IF RLt(blend, RInt(0)) THEN RInt(0)
                            ELSE IF RGt(blend, RInt(100)) THEN RInt(100) ELSE blend)

\* A building built this year (age 0, floored to 1) whose funds are 9 times the
\* required reserve: the ratio is 9 and the sub-score is capped at 100
C13_Witness ==
    /\ IsFinancial
    /\ ReserveInputsNumeric
    /\ CellNum("year_built", 0) = CURRENT_YEAR
    /\ CellNum("total_flats", 0) = 2
    /\ ret.details["Reserve Ratio"] = RInt(9)
    /\ ret.details["Collection Rate (%)"] = RInt(90)
    /\ ret.details["Payment Punctuality (%)"] = RInt(0)
    /\ ret.score = RInt(76)

\* A call of calculate_people_score that reached the ratios: the building has
\* columns and resident rows
IsPeople ==
    /\ call.fn = "calculate_people_score"
    /\ Returned
    /\ ~SeriesEmpty(call.building)
    /\ \E i \in 1..Len(call.residents) :
          call.residents[i].building_id = call.building["building_id"].str

\* The number of resident rows of the call that belong to its building and
\* carry the value v in the column col
ResidentCount(col, v) ==
    Cardinality({i \in 1..Len(call.residents) :
                    /\ call.residents[i].building_id = call.building["building_id"].str
                    /\ call.residents[i][col] = v})

\* 100 * count / total_flats, and 0 when total_flats is zero, negative or missing
ShareOfFlats(count) ==
    LET total_flats == CellNum("total_flats", 0)
    IN  IF total_flats > 0 THEN Rat(100 * count, total_flats) ELSE RInt(0)

\* C14: payment punctuality is 100 * (rows of the building with due amount 0) /
\* total_flats in both functions and owner ratio is 100 * (rows flagged Owner) /
\* total_flats; with total_flats zero, negative or missing both are 0 and the
\* call returns
C14_RatiosOverFlats ==
    /\ IsFinancial =>
          ret.details["Payment Punctuality (%)"]
              = ShareOfFlats(ResidentCount("maintenance_due_amount", 0))
    /\ IsPeople =>
          /\ ret.details["Payment Punctuality (%)"]
                = ShareOfFlats(ResidentCount("maintenance_due_amount", 0))
          /\ ret.details["Owner-Tenant Ratio (%)"]
                = ShareOfFlats(ResidentCount("owner_or_tenant", "Owner"))

\* A building of 0 flats with an owner who owes nothing: both ratios are 0
C14_Witness ==
    /\ IsPeople
    /\ Get(call.building, "total_flats", NaN) = Num(0)
    /\ ResidentCount("maintenance_due_amount", 0) > 0
    /\ ResidentCount("owner_or_tenant", "Owner") > 0
    /\ ret.details["Payment Punctuality (%)"] = RInt(0)
    /\ ret.details["Owner-Tenant Ratio (%)"] = RInt(0)

\* A call of calculate_structural_health on a building that has columns
IsStructural ==
    call.fn = "calculate_structural_health" /\ Returned /\ ~SeriesEmpty(call.building)

\* x clamped to [0,100]
Clamped(x) ==
    IF RLt(x, RInt(0)) THEN RInt(0) ELSE IF RGt(x, RInt(100)) THEN RInt(100) ELSE x

\* a*x + b*y + c*z
Blend(a, x, b, y, c, z) == RAdd(RAdd(RMul(a, x), RMul(b, y)), RMul(c, z))

\* max(0, 100 - 1.5 * age), and 0 when year_built is missing or <= 0
StatedAgeScore ==
    LET year_built == Get(call.building, "year_built", NaN)
    IN  IF IsNum(year_built) /\ year_built.num > 0
        THEN LET twice == 200 - 3 * (CURRENT_YEAR - year_built.num)
             IN  IF twice > 0 THEN Rat(twice, 2) ELSE RInt(0)
        ELSE RInt(0)

\* A=100, B=80, C=50, D=20, F=0, the letter in either case; 0 for any other
\* or a missing rating
StatedAuditScore ==
    LET rating == Get(call.building, "structural_audit_rating", NaN)
    IN  IF ~IsStr(rating) THEN RInt(0)
        ELSE CASE rating.str \in {"A", "a"} -> RInt(100)
               [] rating.str \in {"B", "b"} -> RInt(80)
               [] rating.str \in {"C", "c"} -> RInt(50)
               [] rating.str \in {"D", "d"} -> RInt(20)
               [] OTHER -> RInt(0)

\* The open repairs of the building of the call, and those of severity High
OpenRepairs ==
    {i \in 1..Len(call.repairs) :
        /\ call.repairs[i].building_id = call.building["building_id"].str
        /\ call.repairs[i].status = "Open"}
OpenHighRepairs == {i \in OpenRepairs : call.repairs[i].severity = "High"}

\* max(0, 100 - 5 * open - 20 * open of severity High)
StatedRepairScore ==
    LET points == 100 - 5 * Cardinality(OpenRepairs) - 20 * Cardinality(OpenHighRepairs)
    IN  IF points > 0 THEN RInt(points) ELSE RInt(0)

\* The mean score of a column of the building's resident rows under a score
\* table, a value outside the table scoring 0
StatedMean(col, high, high_score, low, low_score) ==
    LET mine == {i \in 1..Len(call.residents) :
                    call.residents[i].building_id = call.building["building_id"].str}
    IN  Rat(high_score * Cardinality({i \in mine : call.residents[i][col] = high})
            + low_score * Cardinality({i \in mine : call.residents[i][col] = low}),
            Cardinality(mine))

\* C15: the financial score is 0.4*collection rate + 0.4*reserve sub-score +
\* 0.2*payment punctuality, the structural score 0.2*age score + 0.5*audit rating
\* score + 0.3*repair score, the people score 0.5*payment punctuality + 0.2*owner
\* ratio + 0.3*(0.6*mean income score + 0.4*mean education score), each clamped
\* to [0,100]; an income or education value outside the tables scores 0
C15_WeightedBlends ==
    /\ IsFinancial =>
          LET ratio100 == RMul(ret.details["Reserve Ratio"], RInt(100))
          IN  ret.score =
                 Clamped(Blend(Rat(4, 10), ret.details["Collection Rate (%)"],
                               Rat(4, 10), IF RLt(ratio100, RInt(100)) THEN ratio100
                                           ELSE RInt(100),
                               Rat(2, 10), ret.details["Payment Punctuality (%)"]))
    /\ IsStructural =>
          ret.score = Clamped(Blend(Rat(2, 10), StatedAgeScore, Rat(5, 10), StatedAuditScore,
                                    Rat(3, 10), StatedRepairScore))
    /\ IsPeople =>
          LET income == StatedMean("avg_monthly_income", "High", 100, "Low", 30)
              education == StatedMean("education_level", "Graduate", 80, "High School", 50)
              socio_economic == RAdd(RMul(Rat(6, 10), income), RMul(Rat(4, 10), education))
          IN  /\ ret.details["Avg. Income Score"] = income
              /\ ret.details["Avg. Education Score"] = education
              /\ ret.score =
                    Clamped(Blend(Rat(5, 10), ret.details["Payment Punctuality (%)"],
                                  Rat(2, 10), ret.details["Owner-Tenant Ratio (%)"],
                                  Rat(3, 10), socio_economic))

\* A people call on a 2-flat building with one owner who owes nothing, whose
\* income is outside the table and who is a graduate: 0.5*50 + 0.2*50 +
\* 0.3*(0.6*0 + 0.4*80) = 44.6
C15_Witness ==
    /\ IsPeople
    /\ CellNum("total_flats", 0) = 2
    /\ call.residents = <<Resident("B1", 0, "Owner", "Unknown", "Graduate")>>
    /\ ret.details["Avg. Income Score"] = RInt(0)
    /\ ret.score = Rat(446, 10)

\* C16: in calculate_structural_health the age score is max(0, 100 - 1.5*age),
\* 0 for a missing or non-positive year_built; the audit rating score is A=100,
\* B=80, C=50, D=20, F=0 and 0 for an unknown or missing rating; the repair score
\* is max(0, 100 - 5*open - 20*open High) over the repairs of the building; a
\* building rated A, aged 5, with no open repairs scores 98.5
C16_StructuralComponents ==
    IsStructural =>
        LET year_built == Get(call.building, "year_built", NaN)
            rating == Get(call.building, "structural_audit_rating", NaN)
            valid_year == IsNum(year_built) /\ year_built.num > 0
        IN  /\ ret.details["Building Age (Years)"]
                  = RInt(IF valid_year THEN CURRENT_YEAR - year_built.num ELSE 0)
            /\ ret.details["Open Issues"] = RInt(Cardinality(OpenRepairs))
            /\ ret.details["High Severity Issues"] = RInt(Cardinality(OpenHighRepairs))
            /\ RAdd(RAdd(RMul(StatedAgeScore, Rat(1, 5)), RMul(StatedAuditScore, Rat(1, 2))),
                    RMul(StatedRepairScore, Rat(3, 10))) = ret.score
            /\ (/\ rating = Str("A")
                /\ year_built = Num(CURRENT_YEAR - 5)
                /\ OpenRepairs = {}) => ret.score = Rat(197, 2)
            /\ (~valid_year /\ ~IsStr(rating) /\ OpenRepairs = {}) => ret.score = RInt(30)

\* The building rated A, aged 5, whose only repair is closed: 98.5
C16_Witness ==
    /\ IsStructural
    /\ Get(call.building, "structural_audit_rating", NaN) = Str("A")
    /\ Get(call.building, "year_built", NaN) = Num(CURRENT_YEAR - 5)
    /\ Len(call.repairs) = 1
    /\ OpenRepairs = {}
    /\ ret.score = Rat(197, 2)

\* A call of one of the three primitives on a building that has columns and no
\* row in any table of the call
NoRowsForBuilding ==
    /\ call.fn \in {"calculate_financial_health", "calculate_structural_health",
                    "calculate_people_score"}
    /\ ~SeriesEmpty(call.building)
    /\ \A t \in {"residents", "transactions", "repairs"} \cap DOMAIN call :
          \A i \in 1..Len(call[t]) :
              call[t][i].building_id # call.building["building_id"].str

\* C17: for a building with no rows in the residents, transactions and repairs
\* tables the primitives raise nothing: the people score is (0, {}), the
\* financial score is 0.4*collection rate + 0.4*min(100, 100*ratio) with payment
\* punctuality 0, the structural score counts 0 open issues and its repair
\* component contributes 0.3*100
C17_NoRowsNoError ==
    NoRowsForBuilding =>
        /\ Returned
        /\ call.fn = "calculate_people_score" =>
              ret.score = RInt(0) /\ ret.details = EmptyDict
        /\ call.fn = "calculate_financial_health" =>
              LET ratio100 == RMul(ret.details["Reserve Ratio"], RInt(100))
              IN  /\ ret.details["Payment Punctuality (%)"] = RInt(0)
                  /\ ret.score =
                        Clamped(RAdd(RMul(Rat(2, 5), ret.details["Collection Rate (%)"]),
                                     RMul(Rat(2, 5), IF RLt(ratio100, RInt(100))
                                                     THEN ratio100 ELSE RInt(100))))
        /\ call.fn = "calculate_structural_health" =>
              /\ ret.details["Open Issues"] = RInt(0)
              /\ ret.score = RAdd(RAdd(RMul(StatedAgeScore, Rat(1, 5)),
                                       RMul(StatedAuditScore, Rat(1, 2))), RInt(30))

\* The number of training samples of a call of train_ml_models whose score,
\* a missing score counting as 0, falls in the risk class
SamplesOfClass(class) ==
    Cardinality({i \in 1..Len(call.bhi_scores) :
        LET bhi == IF isna(call.bhi_scores[i]) THEN RInt(0) ELSE call.bhi_scores[i]
        IN  class = (IF RGe(bhi, RInt(80)) THEN "Low"
                     ELSE IF RGe(bhi, RInt(50)) THEN "Medium" ELSE "High")})

\* The risk classes that have training samples
ClassesPresent == {c \in {"Low", "Medium", "High"} : SamplesOfClass(c) > 0}

\* C18: with fewer than 4 samples or fewer than 2 distinct risk classes,
\* train_ml_models returns without fitting the classifier: risk_classifier is
\* None and class_distribution holds the sample count of each class
C18_TrainerInsufficientData ==
    (/\ call.fn = "train_ml_models"
     /\ Len(call.bhi_scores) < 4 \/ Cardinality(ClassesPresent) < 2) =>
        /\ ~ret.fit_attempted
        /\ ret.risk_classifier = None
        /\ DOMAIN ret.class_distribution = ClassesPresent
        /\ \A c \in ClassesPresent : ret.class_distribution[c] = SamplesOfClass(c)

\* Four samples of one class (one of them a missing score): no classifier, and
\* the distribution counts the four
C18_Witness ==
    /\ call.fn = "train_ml_models"
    /\ Len(call.bhi_scores) = 4
    /\ \E i \in 1..4 : isna(call.bhi_scores[i])
    /\ ret.risk_classifier = None
    /\ ~ret.fit_attempted
    /\ ret.class_distribution = [c \in {"High"} |-> 4]

\* The features derived from the resident rows of a building
ResidentFeatures ==
    {"total_residents", "payment_punctuality", "owner_ratio", "avg_dues", "total_dues",
     "avg_income_score", "avg_edu_score"}

\* The feature record has no resident row in the residents table of the call
NoResidentsOf(features) ==
    \A i \in 1..Len(call.residents) : call.residents[i].building_id # features.building_id

\* C19: no feature of a record produced by create_ml_features is a missing-value
\* marker, whatever numeric inputs are missing; for a building without residents
\* every resident-derived feature is 0
C19_NoMissingFeatures ==
    call.fn = "create_ml_features" =>
        \A i \in 1..Len(ret.features) :
            LET features == ret.features[i]
            IN  /\ \A k \in DOMAIN features \ {"building_id"} : ~isna(features[k])
                /\ NoResidentsOf(features) =>
                      \A k \in ResidentFeatures : features[k] = RInt(0)

\* The maintenance amounts and the flat count of the building of a call are
\* not negative
NonNegativeInputs ==
    /\ CellNum("monthly_maintenance_expected", 0) >= 0
    /\ CellNum("monthly_maintenance_collected", 0) >= 0
    /\ CellNum("total_flats", 0) >= 0

\* C20: every percentage reported lies in [0,100]: the details Collection Rate
\* (%), Payment Punctuality (%) and Owner-Tenant Ratio (%) and the features
\* collection_rate, payment_punctuality and owner_ratio, also when more was
\* collected than expected or there are more resident rows than flats
C20_PercentagesInRange ==
    /\ (IsFinancial /\ NonNegativeInputs) =>
          /\ InRange0_100(ret.details["Collection Rate (%)"])
          /\ InRange0_100(ret.details["Payment Punctuality (%)"])
    /\ (IsPeople /\ NonNegativeInputs) =>
          /\ InRange0_100(ret.details["Payment Punctuality (%)"])
          /\ InRange0_100(ret.details["Owner-Tenant Ratio (%)"])
    /\ call.fn = "create_ml_features" =>
          \A i \in 1..Len(ret.features) :
              /\ InRange0_100(ret.features[i].collection_rate)
              /\ InRange0_100(ret.features[i].payment_punctuality)
              /\ InRange0_100(ret.features[i].owner_ratio)

\* C21: two runs of a scoring function or of check_nmmc_compliance on the same
\* arguments return the same result, whatever the moment of each run
C21_SameResultAtAnyMoment ==
    (call.fn = "rerun" /\ ret # NoRet) => ret.second = call.first

\* The result of a function on a building and on the rows of the tables that
\* carry its building_id, none of the other rows
OnOwnRows(fn, building) ==
    LET id == building["building_id"].str
        residents == RowsOf(residents_df, id)
    IN  CASE fn = "calculate_people_score" ->
                calculate_people_score(building, DuesRead(residents))
          [] fn = "app_calculate_people_score" ->
                app_calculate_people_score(building, DuesRead(residents))
          [] OTHER -> BuildingFeatures(building, residents, RowsOf(transactions_df, id),
                                       RowsOf(repairs_df, id))

TablesUnchanged ==
    /\ buildings_df' = buildings_df
    /\ residents_df' = residents_df
    /\ transactions_df' = transactions_df
    /\ repairs_df' = repairs_df

\* C22: scoring a building or deriving its features leaves the buildings row
\* and the tables as they were, and the result is the one its own row and the
\* rows carrying its building_id give, in whatever order buildings are taken
C22_ScoringIsLocal ==
    /\ [](\A key \in DOMAIN processed_data :
            processed_data[key] = OnOwnRows(key[1], buildings_df[key[2]]))
    /\ [][TablesUnchanged]_vars

\* Both buildings have been scored, the second of the table first, beside
\* residents of both
C22_Witness ==
    /\ pc = "frame"
    /\ Len(buildings_df) = 2
    /\ DOMAIN processed_data = {"calculate_people_score", "app_calculate_people_score",
                                "create_ml_features"} \X {1, 2}
    /\ \E i, j \in 1..Len(residents_df) :
          residents_df[i].building_id = "B1" /\ residents_df[j].building_id = "B2"
    /\ processed_data[<<"calculate_people_score", 1>>].score # RInt(0)
    /\ processed_data[<<"create_ml_features", 2>>].total_residents = RInt(1)

\* The orders of the scored rows that a stable sort by BHI can give: one
StableOrders ==
    LET n == Len(processed_data)
    IN  {f \in [1..n -> 1..n] :
            /\ \A i, j \in 1..n : i # j => f[i] # f[j]
            /\ \A i, j \in 1..n :
                  (i < j /\ REq(processed_data[f[i]]["BHI"], processed_data[f[j]]["BHI"]))
                      => f[i] < f[j]}

RowsWithId(rows, id) == Cardinality({i \in 1..Len(rows) : rows[i]["building_id"] = id})

\* C23: the result table has one row per processed building, in non-increasing
\* BHI, and rows of equal BHI stand in the order of the buildings table
C23_ResultTableSorted ==
    pc = "done" =>
        /\ Len(main_df) = Len(buildings_df)
        /\ \A k \in 1..Len(buildings_df) :
              RowsWithId(main_df, buildings_df[k]["building_id"].str)
                  = RowsWithId(processed_data, buildings_df[k]["building_id"].str)
        /\ \A i \in 1..(Len(main_df) - 1) : RGe(main_df[i]["BHI"], main_df[i + 1]["BHI"])
        /\ \E f \in StableOrders : main_df = [i \in 1..Len(main_df) |-> processed_data[f[i]]]

\* Two buildings of equal BHI stand in the result table
C23_Witness ==
    /\ pc = "done"
    /\ Len(main_df) = 2
    /\ main_df[1]["building_id"] # main_df[2]["building_id"]
    /\ REq(main_df[1]["BHI"], main_df[2]["BHI"])

YearBuiltMissing ==
    "year_built" \notin DOMAIN call.building \/ isna(call.building["year_built"])

\* C25: calculate_financial_health takes a missing year_built as 0: the
\* reserve ratio reported is 0 and the reserve sub-score adds nothing to the
\* financial score, as for year_built <= 0
C25_MissingYearBuilt ==
    (IsFinancial /\ YearBuiltMissing) =>
        /\ ret.details["Reserve Ratio"] = RInt(0)
        /\ ret.score = Clamped(RAdd(RMul(ret.details["Collection Rate (%)"], Rat(2, 5)),
                                    RMul(ret.details["Payment Punctuality (%)"], Rat(1, 5))))

\* The rows of the buildings table that create_ml_features turns into features
FeaturedBuildings == SelectSeq(call.buildings, HasBuildingId)

\* C26: the features reserve_ratio, collection_rate and age of a building are
\* the 'Reserve Ratio' and 'Collection Rate (%)' of calculate_financial_health
\* and the 'Building Age (Years)' of calculate_structural_health
C26_FeaturesAgreeWithPrimitives ==
    (call.fn = "create_ml_features" /\ "features" \in DOMAIN ret) =>
        \A k \in 1..Len(ret.features) :
            LET building == FeaturedBuildings[k]
                fin == calculate_financial_health(building, <<>>, <<>>).details
                str == calculate_structural_health(building, <<>>).details
            IN  /\ ret.features[k].reserve_ratio = fin["Reserve Ratio"]
                /\ ret.features[k].collection_rate = fin["Collection Rate (%)"]
                /\ ret.features[k].age = str["Building Age (Years)"]

\* C27: whatever buildings are submitted through the form, with or without a
\* data refresh between them, the building_id values of the buildings file
\* are pairwise distinct
C27_DistinctBuildingIds ==
    pc = "dashboard" =>
        \A i, j \in 1..Len(buildings_csv) :
            i # j => buildings_csv[i].building_id # buildings_csv[j].building_id

\* The feature create_ml_features derives from the flag a rule reads
FeatureOfFlag(rule_id) == FlagFeature(FlagOf(rule_id))

\* C28: the feature waste_segregation (sewage_approved) of a building is 1
\* exactly when the rule WASTE_SEGREGATION (SEWAGE_SYSTEM) passes on it,
\* whatever the value of the flag
C28_FlagFeatureIsRuleOutcome ==
    (IsCompliance /\ ~ret.raised) =>
        \A rule_id \in {"WASTE_SEGREGATION", "SEWAGE_SYSTEM"} :
            \A i \in RulesWithId(rule_id) :
                FeatureOfFlag(rule_id) = RInt(1) <=> ret.results[i].Status = "Pass"

\* The building has no value for the flag a rule reads: the column is not in
\* the table or the cell is NaN
FlagAbsent(rule_id) ==
    LET column == IF rule_id = "WASTE_SEGREGATION" THEN "waste_segregation_implemented"
                  ELSE "sewage_system_approved"
    IN  column \notin DOMAIN call.building \/ isna(call.building[column])

\* C29: a building without a value for the flag gets Fail for the rule that
\* reads it
C29_AbsentFlagFails ==
    (IsCompliance /\ ~ret.raised) =>
        \A rule_id \in {"WASTE_SEGREGATION", "SEWAGE_SYSTEM"} :
            \A i \in RulesWithId(rule_id) :
                FlagAbsent(rule_id) => ret.results[i].Status = "Fail"

\* The call is made on a well-formed building beside tables that have their
\* columns: every column has a value, year_built, total_flats and the expected
\* amount are positive, the rating is an upper-case letter, the flags are
\* booleans and the inspection dates are dates up to today
WellFormedBuilding ==
    /\ "building" \in DOMAIN call
    /\ "no_columns" \notin DOMAIN call
    /\ LET b == call.building
       IN  /\ DOMAIN b = DOMAIN BaseBuilding
           /\ \A col \in {"year_built", "total_flats", "current_fund", "reserve_fund",
                          "monthly_maintenance_expected", "monthly_maintenance_collected"} :
                 IsNum(b[col])
           /\ \A col \in {"year_built", "total_flats", "monthly_maintenance_expected"} :
                 b[col].num > 0
           /\ b["structural_audit_rating"] \in {Str("A"), Str("B"), Str("C"), Str("D"), Str("F")}
           /\ \A col \in {"waste_segregation_implemented", "sewage_system_approved"} :
                 IsBool(b[col])
           /\ \A col \in {"last_fire_safety", "last_annual_inspection"} :
                 IsDate(b[col]) /\ b[col].date <= today

\* The Pass/Fail/Error statuses of a result list, in order
Statuses(results) == [i \in 1..Len(results) |-> results[i].Status]

\* C30: on a well-formed building the functions of app.py and the functions of
\* calculations.py, compliance.py and utils.py return the same scores, the
\* same composite index and color, the same compliance score and statuses
C30_LegacyAgreesWithModular ==
    /\ (WellFormedBuilding /\ call.fn = "calculate_financial_health") =>
          LET legacy == app_calculate_financial_health(call.building, call.transactions,
                                                       call.residents)
          IN  Returned /\ legacy.ok /\ ret.score = legacy.v.score
    /\ (WellFormedBuilding /\ call.fn = "calculate_structural_health") =>
          LET legacy == app_calculate_structural_health(call.building, call.repairs)
          IN  Returned /\ legacy.ok /\ ret.score = legacy.v.score
    /\ (WellFormedBuilding /\ call.fn = "calculate_people_score") =>
          LET legacy == app_calculate_people_score(call.building, call.residents)
          IN  Returned /\ legacy.ok /\ ret.score = legacy.v.score
    /\ (WellFormedBuilding /\ call.fn = "check_nmmc_compliance") =>
          LET legacy == app_check_nmmc_compliance(call.building, call.rules,
                                                  call.financial_details)
          IN  IF ret.raised THEN ~legacy.ok
              ELSE /\ legacy.ok
                   /\ ret.score = legacy.v.score
                   /\ Statuses(ret.results) = Statuses(legacy.v.results)
    /\ call.fn = "calculate_bhi" =>
          ret.score = app_calculate_bhi(call.financial_score, call.structural_score,
                                        call.people_score)
    /\ call.fn = "tier" => ret.color = app_get_bhi_color(call.bhi)

====
